---- MODULE Spec2Model ----
(***************************************************************************)
(* Model of reportsizedeltas.py: the consolidation of sharded sketches     *)
(* reports (get_sketches_reports) and the delta/threshold/table engine     *)
(* (generate_report).                                                      *)
(*                                                                         *)
(* Conventions.                                                            *)
(*  - Python lists are sequences; a Python index i is the TLA+ index i+1.  *)
(*    row_number, column_number and position keep Python's 0-based value.  *)
(*  - A table cell is a tagged record: StrCell(s) for a Python str,        *)
(*    IntCell(n) for a Python int, FltCell(n, d) for a float holding n/d.  *)
(*  - get_sketches_reports returns None or a non-empty list, and every     *)
(*    caller only tests the result's truth value: None is written <<>>.    *)
(*    An optional value (master_sketch) is a sequence of length 0 or 1.    *)
(*  - Floats are modelled as exact rationals in lowest terms.  The model   *)
(*    agrees with IEEE doubles on sign and order for the sizes used here;  *)
(*    the last-bit rounding error of a double is not modelled.             *)
(*  - A raised Python exception ends the run in pc = "raised" with the     *)
(*    exception's class name in error.                                     *)
(***************************************************************************)
EXTENDS Integers, Sequences, FiniteSets, TLC

(***************************************************************************)
(* Cells and numbers                                                       *)
(***************************************************************************)
StrCell(s) == [k |-> "str", s |-> s]
IntCell(n) == [k |-> "int", n |-> n]

Abs(x) == IF x < 0 THEN -x ELSE x

RECURSIVE Gcd(_, _)
Gcd(a, b) == IF b = 0 THEN a ELSE Gcd(b, a % b)

\* A Python float with value n/d (d > 0), kept in lowest terms.
FltCell(n, d) ==
    LET g == Gcd(Abs(n), d)
    IN  [k |-> "flt", n |-> n \div g, d |-> d \div g]

\* Numerator and denominator of a numeric cell (an int n is n/1).
Num(c) == c.n
Den(c) == IF c.k = "flt" THEN c.d ELSE 1

\* Python's a > b and a < b on numeric cells.
Gt(a, b) == Num(a) * Den(b) > Num(b) * Den(a)
Lt(a, b) == Num(a) * Den(b) < Num(b) * Den(a)

\* Python 3 round(n / d) for d > 0: round half to even.
PyRound(n, d) ==
    LET q == n \div d
        r == n - q * d
    IN  IF 2 * r < d THEN q
        ELSE IF 2 * r > d THEN q + 1
        ELSE IF q % 2 = 0 THEN q ELSE q + 1

\* Python's str() of a cell that holds a str or an int.
PyStr(c) == IF c.k = "str" THEN c.s ELSE ToString(c.n)

\* "{:.2f}".format(c) for a numeric cell: two decimals, half to even on the
\* exact value, the sign kept even when the digits round to zero.
Format2f(c) ==
    LET h    == PyRound(Abs(Num(c)) * 100, Den(c))
        ip   == h \div 100
        fp   == h % 100
        sign == IF Num(c) < 0 THEN "-" ELSE ""
    IN  sign \o ToString(ip) \o "." \o
        (IF fp < 10 THEN "0" ELSE "") \o ToString(fp)

(***************************************************************************)
(* Strings                                                                 *)
(***************************************************************************)
LowerCase == "abcdefghijklmnopqrstuvwxyz"
UpperCase == "ABCDEFGHIJKLMNOPQRSTUVWXYZ"

UpperChar(c) ==
    IF \E i \in 1..Len(LowerCase) : SubSeq(LowerCase, i, i) = c
    THEN LET i == CHOOSE j \in 1..Len(LowerCase) : SubSeq(LowerCase, j, j) = c
         IN  SubSeq(UpperCase, i, i)
    ELSE c

\* str.upper(): every character is mapped, the two halves of a longer
\* string one after the other.
RECURSIVE Upper(_)
Upper(s) ==
    IF Len(s) <= 1 THEN UpperChar(s)
    ELSE Upper(SubSeq(s, 1, Len(s) \div 2))
            \o Upper(SubSeq(s, Len(s) \div 2 + 1, Len(s)))

StartsWith(s, p) == Len(s) >= Len(p) /\ SubSeq(s, 1, Len(p)) = p

\* str.replace(old, ""): every non-overlapping occurrence of old, scanning
\* from the left, is removed.
RECURSIVE RemoveAll(_, _)
RemoveAll(s, old) ==
    IF Len(s) = 0 THEN ""
    ELSE IF StartsWith(s, old)
         THEN RemoveAll(SubSeq(s, Len(old) + 1, Len(s)), old)
         ELSE SubSeq(s, 1, 1) \o RemoveAll(SubSeq(s, 2, Len(s)), old)

\* Line 466: sketch_name.replace("libraries/", "")
DisplayName(name) == RemoveAll(name, "libraries/")

(***************************************************************************)
(* Input documents                                                         *)
(***************************************************************************)
\* The "sizes" array of a sketch.  "merged" is the shape the comment on
\* line 504 describes (one element holding the four keys); "split" is the
\* shape with the flash keys in element 0 and the RAM keys in element 1.
Sizes(shape, f, fp, r, rp) ==
    IF shape = "merged"
    THEN << [flash_bytes |-> f, flash_percentage |-> fp,
             ram_bytes |-> r, ram_percentage |-> rp] >>
    ELSE << [flash_bytes |-> f, flash_percentage |-> fp],
            [ram_bytes |-> r, ram_percentage |-> rp] >>

Sketch(name, sizes) == [name |-> name, sizes |-> sizes]

Board(board, target, sketches) ==
    [board |-> board, target |-> target, sketches |-> sketches]

(***************************************************************************)
(* get_sketches_reports, lines 382-398: consolidation by board             *)
(***************************************************************************)
\* Index of the entry of the insertion-ordered dict whose key is board,
\* 0 when the key is absent.
DictIndex(consolidated_boards, board) ==
    IF \E i \in 1..Len(consolidated_boards) : consolidated_boards[i].board = board
    THEN CHOOSE i \in 1..Len(consolidated_boards) : consolidated_boards[i].board = board
    ELSE 0

\* Mutant of ConsolidateItem: every entry becomes a group of its own (the
\* list is returned as it was read).
ConsolidateItemNoMerge(consolidated_boards, item) ==
    Append(consolidated_boards, Board(item.board, item.target, item.sketches))

\* One iteration of the loop of lines 384-392.
ConsolidateItem(consolidated_boards, item) ==
    LET i == DictIndex(consolidated_boards, item.board)
    IN  IF i = 0
        THEN Append(consolidated_boards,
                    Board(item.board, item.target, item.sketches))
        ELSE [consolidated_boards EXCEPT
                 ![i].sketches = consolidated_boards[i].sketches \o item.sketches]

RECURSIVE ConsolidateLoop(_, _)
ConsolidateLoop(consolidated_boards, items) ==
    IF items = <<>> THEN consolidated_boards
    ELSE ConsolidateLoop(ConsolidateItem(consolidated_boards, Head(items)),
                         Tail(items))

\* Lines 377-398: None (written <<>>) when nothing was read, else the
\* consolidated list in dict insertion order.
Consolidated(items) ==
    IF items = <<>> THEN <<>> ELSE ConsolidateLoop(<<>>, items)

(***************************************************************************)
(* get_sketches_reports, lines 360-375: the report files of a folder       *)
(***************************************************************************)
\* The characters of file names in code point order; Python compares
\* strings by code point.
Ascii ==
    "-.0123456789ABCDEFGHIJKLMNOPQRSTUVWXYZ_abcdefghijklmnopqrstuvwxyz"

Ord(c) == CHOOSE i \in 1..Len(Ascii) : SubSeq(Ascii, i, i) = c

DecimalDigits == "0123456789"

IsDigit(c) == \E i \in 1..Len(DecimalDigits) : SubSeq(DecimalDigits, i, i) = c

\* int() of a run of decimal digits.
RECURSIVE ParseInt(_)
ParseInt(digits) ==
    IF Len(digits) = 0 THEN 0
    ELSE LET last == SubSeq(digits, Len(digits), Len(digits))
             d    == (CHOOSE i \in 1..Len(DecimalDigits) :
                         SubSeq(DecimalDigits, i, i) = last) - 1
         IN  ParseInt(SubSeq(digits, 1, Len(digits) - 1)) * 10 + d

\* Length of the longest prefix of s whose characters are all digits
\* (digit = TRUE) or all non-digits (digit = FALSE).
RunLength(s, digit) ==
    Cardinality({i \in 1..Len(s) :
                    \A j \in 1..i : IsDigit(SubSeq(s, j, j)) = digit})

\* re.compile(r'(\d+)').split(value), line 57: the text between the digit
\* runs at the even positions (the empty string before a leading and after
\* a trailing digit run), the digit runs at the odd positions.
RECURSIVE ReSplit(_)

\* The digit run of m characters at the start of rest, and the split of
\* what follows it.
SplitDigits(rest, m) ==
    << SubSeq(rest, 1, m) >> \o ReSplit(SubSeq(rest, m + 1, Len(rest)))

\* The text of n characters before the first digit run of value, and the
\* split of the rest when there is a digit run.
SplitText(value, n) ==
    IF n = Len(value) THEN << value >>
    ELSE << SubSeq(value, 1, n) >>
            \o SplitDigits(SubSeq(value, n + 1, Len(value)),
                           RunLength(SubSeq(value, n + 1, Len(value)), TRUE))

ReSplit(value) == SplitText(value, RunLength(value, FALSE))

\* Mutant of numerical_sort: the name itself is the key (plain sort).
PlainSortKey(value) == << StrCell(value) >>

\* numerical_sort, lines 55-59: parts[1::2] = map(int, parts[1::2]).
IntParts(parts) ==
    [i \in 1..Len(parts) |->
        IF i % 2 = 0 THEN IntCell(ParseInt(parts[i])) ELSE StrCell(parts[i])]

numerical_sort(value) == IntParts(ReSplit(value))

\* Python's a < b on two str.
RECURSIVE StrLess(_, _)
StrLess(a, b) ==
    IF Len(b) = 0 THEN FALSE
    ELSE IF Len(a) = 0 THEN TRUE
    ELSE IF SubSeq(a, 1, 1) # SubSeq(b, 1, 1)
         THEN Ord(SubSeq(a, 1, 1)) < Ord(SubSeq(b, 1, 1))
         ELSE StrLess(SubSeq(a, 2, Len(a)), SubSeq(b, 2, Len(b)))

\* The first position at which two lists differ (a str never equals an
\* int), 0 when one is a prefix of the other.
FirstDifference(x, y) ==
    LET n == IF Len(x) < Len(y) THEN Len(x) ELSE Len(y)
    IN  IF \E i \in 1..n : x[i] # y[i]
        THEN CHOOSE i \in 1..n : x[i] # y[i] /\ \A j \in 1..(i - 1) : x[j] = y[j]
        ELSE 0

\* Python's x < y on two lists: "lt" or "ge", or "TypeError" when the
\* elements at the first difference are a str and an int.
CompareAt(x, y, i) ==
    IF i = 0 THEN (IF Len(x) < Len(y) THEN "lt" ELSE "ge")
    ELSE IF x[i].k # y[i].k THEN "TypeError"
    ELSE IF x[i].k = "int"
         THEN (IF x[i].n < y[i].n THEN "lt" ELSE "ge")
         ELSE (IF StrLess(x[i].s, y[i].s) THEN "lt" ELSE "ge")

ListLess(x, y) == CompareAt(x, y, FirstDifference(x, y))

\* A file of the folder: its name and what json.load makes of its text.
\* json is FALSE for a text that is not JSON; value is the parsed object.
File(name, json, value) == [name |-> name, json |-> json, value |-> value]

\* A report file with the given board entries.
ReportFile(name, boards) == File(name, TRUE, [boards |-> boards])

\* sorted(..., key=...) computes the key of every file once.
Keyed(file) == [key |-> numerical_sort(file.name), file |-> file]

\* sorted() is stable: a file goes behind every file whose key is not
\* greater than its own.
InsertAt(sorted, keyed, at) ==
    SubSeq(sorted, 1, at - 1) \o << keyed >> \o SubSeq(sorted, at, Len(sorted))

InsertSorted(sorted, keyed) ==
    InsertAt(sorted, keyed,
             1 + Cardinality({i \in 1..Len(sorted) :
                                 \A j \in 1..i :
                                     ListLess(keyed.key, sorted[j].key) # "lt"}))

\* sorted(artifact_folder.iterdir(), key=...), line 365, of the files in
\* the order iterdir() gives them: the files with their keys.
RECURSIVE SortedFiles(_, _)
SortedFiles(sorted, files) ==
    IF files = <<>> THEN sorted
    ELSE SortedFiles(InsertSorted(sorted, Keyed(Head(files))), Tail(files))

\* A comparison of two keys of the folder raises TypeError.
SortRaises(sorted) ==
    \E i, j \in 1..Len(sorted) :
        ListLess(sorted[i].key, sorted[j].key) = "TypeError"

\* Mutant of ReadLoop: a file that cannot be read is passed over.
RECURSIVE ReadLoopSkipping(_, _)
ReadLoopSkipping(sketches_reports, files) ==
    IF files = <<>> THEN [raised |-> "", items |-> sketches_reports]
    ELSE IF ~Head(files).json \/ "boards" \notin DOMAIN Head(files).value
    THEN ReadLoopSkipping(sketches_reports, Tail(files))
    ELSE ReadLoopSkipping(sketches_reports \o Head(files).value.boards,
                          Tail(files))

\* Lines 365-375: the files in sorted order; json.load raises
\* JSONDecodeError, report_data["boards"] raises KeyError.  The entries
\* appended before an exception stay in the list, which is then lost.
RECURSIVE ReadLoop(_, _)
ReadLoop(sketches_reports, files) ==
    IF files = <<>> THEN [raised |-> "", items |-> sketches_reports]
    ELSE LET file == Head(files)
         IN  IF ~file.json
             THEN [raised |-> "JSONDecodeError", items |-> sketches_reports]
             ELSE IF "boards" \notin DOMAIN file.value
             THEN [raised |-> "KeyError", items |-> sketches_reports]
             ELSE ReadLoop(sketches_reports \o file.value.boards, Tail(files))

\* get_sketches_reports, lines 354-398, on the files of a folder in the
\* order iterdir() gives them: the exception raised ("" for none), the
\* file names in the order they are read, the board entries read, and the
\* returned value.
Loaded(files, read) ==
    [raised    |-> read.raised,
     filenames |-> [i \in 1..Len(files) |-> files[i].name],
     items     |-> read.items,
     result    |-> IF read.raised = "" THEN Consolidated(read.items) ELSE <<>>]

ReadFiles(files) == Loaded(files, ReadLoop(<<>>, files))

ReadSorted(sorted) ==
    IF SortRaises(sorted)
    THEN [raised |-> "TypeError", filenames |-> <<>>, items |-> <<>>,
          result |-> <<>>]
    ELSE ReadFiles([i \in 1..Len(sorted) |-> sorted[i].file])

get_sketches_reports(folder) == ReadSorted(SortedFiles(<<>>, folder))

(***************************************************************************)
(* generate_report: row lookup, baseline lookup, deltas, fold              *)
(***************************************************************************)
\* get_report_row_number, lines 844-853: the 0-based index of the first row
\* whose first cell is the heading, 0 when there is none.
get_report_row_number(report, row_heading) ==
    IF \E i \in 1..Len(report) : report[i][1] = StrCell(row_heading)
    THEN (CHOOSE i \in 1..Len(report) :
             /\ report[i][1] = StrCell(row_heading)
             /\ \A j \in 1..(i - 1) : report[j][1] # StrCell(row_heading)) - 1
    ELSE 0

\* Lines 476-478: a new row, the heading and two empty cells per board.
NewRow(sketch_name, board_count) ==
    <<StrCell(sketch_name)>> \o [i \in 1..(2 * board_count) |-> StrCell("")]

\* Lines 497-500: the inner loop, left by break at the first name match.
FindInBoard(sketches, name) ==
    IF \E j \in 1..Len(sketches) : sketches[j].name = name
    THEN << sketches[CHOOSE j \in 1..Len(sketches) :
                        /\ sketches[j].name = name
                        /\ \A h \in 1..(j - 1) : sketches[h].name # name] >>
    ELSE <<>>

\* Lines 495-500: the outer loop.  break leaves only the inner loop, so a
\* later board with the same target and a name match assigns again.
RECURSIVE MasterLoop(_, _, _, _)
MasterLoop(master_sketch, boards, target, name) ==
    IF boards = <<>> THEN master_sketch
    ELSE LET master_board == Head(boards)
             found == IF master_board.target = target
                      THEN FindInBoard(master_board.sketches, name)
                      ELSE <<>>
         IN  MasterLoop(IF found # <<>> THEN found ELSE master_sketch,
                        Tail(boards), target, name)

\* Lines 493-500.
MasterLookup(master_sketches_reports, target, name) ==
    IF master_sketches_reports # <<>>
    THEN MasterLoop(<<>>, master_sketches_reports, target, name)
    ELSE <<>>

\* Float arithmetic of lines 512-516 on exact rationals.
TrueDiv(a, b) == FltCell(a, b)
FMul(x, c)    == FltCell(Num(x) * c, Den(x))
FSub(x, c)    == FltCell(Num(x) - c * Den(x), Den(x))

\* Lines 512-513 and 515-516: float(((current / previous) * 100) - 100).
PercentChange(current, previous) == FSub(FMul(TrueDiv(current, previous), 100), 100)

\* Mutant of ByteDelta: the flash byte counts are read for both deltas.
ByteDeltaOfFlash(sketch, master_sketch, key) ==
    sketch.sizes[1].flash_bytes - master_sketch.sizes[1].flash_bytes

\* Line 506 and line 508: the byte deltas read sizes[0] of both sketches.
ByteDelta(sketch, master_sketch, key) ==
    sketch.sizes[1][key] - master_sketch.sizes[1][key]

\* Mutant of PercentDelta: the difference of the input's percentage fields
\* (the computation of lines 507 and 509).
PercentDeltaOfFields(sketch, master_sketch, key) ==
    LET field == IF key = "flash_bytes" THEN "flash_percentage" ELSE "ram_percentage"
    IN  FltCell(sketch.sizes[1][field] - master_sketch.sizes[1][field], 1)

\* Line 512 and line 515.
PercentDelta(sketch, master_sketch, key) ==
    PercentChange(sketch.sizes[1][key], master_sketch.sizes[1][key])

\* Lines 506-516 in evaluation order: the line that raises, 0 when the four
\* deltas are computed.  A missing key raises KeyError, a master byte count
\* of zero raises ZeroDivisionError.
RaisedAt(sketch, master_sketch) ==
    IF \/ "flash_bytes" \notin DOMAIN sketch.sizes[1]
       \/ "flash_bytes" \notin DOMAIN master_sketch.sizes[1]
    THEN 506
    ELSE IF \/ "ram_bytes" \notin DOMAIN sketch.sizes[1]
            \/ "ram_bytes" \notin DOMAIN master_sketch.sizes[1]
    THEN 508
    ELSE IF master_sketch.sizes[1].flash_bytes = 0 THEN 512
    ELSE IF master_sketch.sizes[1].ram_bytes = 0 THEN 515
    ELSE 0

DeltaError(sketch, master_sketch) ==
    LET line == RaisedAt(sketch, master_sketch)
    IN  IF line \in {506, 508} THEN "KeyError"
        ELSE IF line \in {512, 515} THEN "ZeroDivisionError"
        ELSE ""

\* The locals of lines 506-516 in assignment order.
DeltaKeys ==
    << "flash_delta_bytes", "ram_delta_bytes",
       "flash_delta_percentage", "ram_delta_percentage" >>

DeltaValue(sketch, master_sketch, key) ==
    CASE key = "flash_delta_bytes" ->
           IntCell(ByteDelta(sketch, master_sketch, "flash_bytes"))
      [] key = "ram_delta_bytes" ->
           IntCell(ByteDelta(sketch, master_sketch, "ram_bytes"))
      [] key = "flash_delta_percentage" ->
           PercentDelta(sketch, master_sketch, "flash_bytes")
      [] key = "ram_delta_percentage" ->
           PercentDelta(sketch, master_sketch, "ram_bytes")

\* Lines 506-516: the locals that were assigned, all four when nothing is
\* raised, those of the lines before the raising one otherwise.
Deltas(sketch, master_sketch) ==
    LET line  == RaisedAt(sketch, master_sketch)
        count == CASE line = 506 -> 0 [] line = 508 -> 1 [] line = 512 -> 2
                   [] line = 515 -> 3 [] OTHER -> 4
    IN  [key \in {DeltaKeys[i] : i \in 1..count} |->
            DeltaValue(sketch, master_sketch, key)]

\* Lines 452-459.
Seeds ==
    [flash_b_max |-> IntCell(0), flash_b_min |-> IntCell(0),
     flash_p_max |-> IntCell(0), flash_p_min |-> IntCell(0),
     ram_b_max   |-> IntCell(0), ram_b_min   |-> IntCell(0),
     ram_p_max   |-> IntCell(0), ram_p_min   |-> IntCell(0)]

\* Mutant of FoldMin: the test of the maximum is used for the minimum.
FoldMinWithMaxTest(min, delta) == IF Gt(delta, min) THEN delta ELSE min

\* One "if delta > max: max = delta" / "if delta < min: min = delta".
FoldMax(max, delta) == IF Gt(delta, max) THEN delta ELSE max
FoldMin(min, delta) == IF Lt(delta, min) THEN delta ELSE min

\* Lines 518-533.
Fold(m, d) ==
    [flash_b_max |-> FoldMax(m.flash_b_max, d.flash_delta_bytes),
     flash_b_min |-> FoldMin(m.flash_b_min, d.flash_delta_bytes),
     flash_p_max |-> FoldMax(m.flash_p_max, d.flash_delta_percentage),
     flash_p_min |-> FoldMin(m.flash_p_min, d.flash_delta_percentage),
     ram_b_max   |-> FoldMax(m.ram_b_max, d.ram_delta_bytes),
     ram_b_min   |-> FoldMin(m.ram_b_min, d.ram_delta_bytes),
     ram_p_max   |-> FoldMax(m.ram_p_max, d.ram_delta_percentage),
     ram_p_min   |-> FoldMin(m.ram_p_min, d.ram_delta_percentage)]

\* Lines 545-549.
SummaryRow(target, m) ==
    << StrCell(Upper(target)),
       m.flash_b_min, m.flash_b_max, m.flash_p_min, m.flash_p_max,
       m.ram_b_min, m.ram_b_max, m.ram_p_min, m.ram_p_max >>

(***************************************************************************)
(* generate_report: cell formatting, lines 559-617                         *)
(***************************************************************************)
emoji_decreased == ":green_heart:"
emoji_increased == ":bangbang:"
emoji_warning   == ":warning:"

\* Lines 566-582: the text of one detail cell.
DetailText(c) ==
    IF PyStr(c) # ""
    THEN LET v  == c.n
             p1 == IF v > 0 /\ v < 2048 THEN emoji_warning \o "+" ELSE ""
             p2 == IF v > 2047 THEN emoji_increased \o "+" ELSE p1
             p3 == IF v < 0 THEN emoji_decreased ELSE p2
         IN  IF v > 2048 \/ v < -2048
             THEN p3 \o ToString(PyRound(v, 1024)) \o "K"
             ELSE p3 \o PyStr(c)
    ELSE "-"

\* Lines 594-604: the text of a summary cell of column 1, 2, 5 or 6.
SummaryBytesText(c) ==
    LET v  == c.n
        p1 == IF v > 0 /\ v < 2048 THEN emoji_warning \o "+" ELSE ""
        p2 == IF v > 2047 THEN emoji_increased \o "+" ELSE p1
        p3 == IF v < 0 THEN emoji_decreased ELSE p2
    IN  IF v > 2047 \/ v < -2048
        THEN p3 \o ToString(PyRound(v, 1024)) \o "K"
        ELSE p3 \o PyStr(c)

\* Mutant of SummaryPercentText: the alert marker from 1 on.
SummaryPercentTextAlertFromOne(c) ==
    LET p1 == IF Gt(c, IntCell(0)) THEN emoji_warning \o "+" ELSE ""
        p2 == IF ~Lt(c, IntCell(1)) THEN emoji_increased \o "+" ELSE p1
        p3 == IF Lt(c, IntCell(0)) THEN emoji_decreased ELSE p2
    IN  p3 \o Format2f(c)

\* Lines 606-613: the text of a summary cell of column 3, 4, 7 or 8.
SummaryPercentText(c) ==
    LET p1 == IF Gt(c, IntCell(0)) THEN emoji_warning \o "+" ELSE ""
        p2 == IF Gt(c, IntCell(1)) THEN emoji_increased \o "+" ELSE p1
        p3 == IF Lt(c, IntCell(0)) THEN emoji_decreased ELSE p2
    IN  p3 \o Format2f(c)

\* Lines 589-615: cell is the 0-based column of the summary row.  A summary
\* cell holds a number, so str() of it is never empty.
SummaryText(cell, c) ==
    IF cell \in {1, 2, 5, 6} THEN SummaryBytesText(c) ELSE SummaryPercentText(c)

\* Lines 564-584: rows 2.. of the detail table, cells 1.. of each.
RenderDetailTable(data) ==
    [r \in 1..Len(data) |->
        IF r >= 3
        THEN [c \in 1..Len(data[r]) |->
                 IF c >= 2 THEN StrCell(DetailText(data[r][c])) ELSE data[r][c]]
        ELSE data[r]]

\* Lines 587-617: rows 2.. of the summary table, cells 1.. of each.
RenderSummaryTable(data) ==
    [r \in 1..Len(data) |->
        IF r >= 3
        THEN [c \in 1..Len(data[r]) |->
                 IF c >= 2 THEN StrCell(SummaryText(c - 1, data[r][c]))
                 ELSE data[r][c]]
        ELSE data[r]]

(***************************************************************************)
(* Report assembly, lines 619-637, and the HTML tables, lines 868-927.     *)
(* A text is kept as the sequence of the pieces that are concatenated.     *)
(***************************************************************************)
report_key_beginning == "Memory usage test (comparing PR agains master branch)"

RECURSIVE Flatten(_)
Flatten(ss) == IF ss = <<>> THEN <<>> ELSE Head(ss) \o Flatten(Tail(ss))

\* The heading row of both HTML tables: lines 878 and 920.
HtmlHeadingRow(row) ==
    <<"<tr>">> \o
    Flatten([i \in 1..Len(row) |->
        IF i # 1
        THEN <<"<th colspan='2' align='center' nowrap>", PyStr(row[i]), "</th>">>
        ELSE <<"<th nowrap>", PyStr(row[i]), "</th>">>]) \o
    <<"</tr>\n">>

\* generate_detailed_html_table, lines 868-887.
generate_detailed_html_table(row_list) ==
    <<"<table>\n">> \o HtmlHeadingRow(row_list[1]) \o
    Flatten([r \in 1..(Len(row_list) - 1) |->
        <<"<tr>">> \o
        Flatten([i \in 1..Len(row_list[r + 1]) |->
            <<"<td nowrap>", PyStr(row_list[r + 1][i]), "</td>">>]) \o
        <<"</tr>\n">>]) \o
    <<"</table>\n">>

\* generate_summary_html_table, lines 889-927.
generate_summary_html_table(row_list) ==
    <<"<table>\n">> \o HtmlHeadingRow(row_list[1]) \o
    Flatten([r \in 1..(Len(row_list) - 1) |->
        <<"<tr>">> \o
        Flatten([i \in 1..Len(row_list[r + 1]) |->
            IF i # 1
            THEN <<"<td align='center' nowrap>", PyStr(row_list[r + 1][i]), "</td>">>
            ELSE <<"<td nowrap>", PyStr(row_list[r + 1][i]), "</td>">>]) \o
        <<"</tr>\n">>]) \o
    <<"</table>\n">>

\* Lines 619-635.
ReportMarkdown(summary, detailed) ==
    << "### " \o report_key_beginning \o "\n\n",
       "The table below shows the summary of memory usage change (min - max) in bytes and percentage for each target.\n\n" >> \o
    generate_summary_html_table(summary) \o
    << "\n",
       "<details>\n<summary>Click to expand the detailed deltas report [usage change in BYTES]</summary>\n\n" >> \o
    generate_detailed_html_table(detailed) \o
    << "\n", "</details>\n" >>

(***************************************************************************)
(* Callers: report_exists, lines 242-267                                   *)
(***************************************************************************)
\* The first n characters of a text.
RECURSIVE TextPrefix(_, _)
TextPrefix(text, n) ==
    IF n = 0 \/ text = <<>> THEN ""
    ELSE IF Len(Head(text)) >= n THEN SubSeq(Head(text), 1, n)
    ELSE Head(text) \o TextPrefix(Tail(text), n - Len(Head(text)))

\* Line 260: comment_data["body"].startswith(prefix).
BodyStartsWith(body, prefix) == TextPrefix(body, Len(prefix)) = prefix

\* report_exists on the comments of the pull request's thread (the pages of
\* the API response, end to end).
report_exists(thread, pr_head_sha) ==
    \E i \in 1..Len(thread) :
        BodyStartsWith(thread[i], report_key_beginning \o pr_head_sha)

(***************************************************************************)
(* The GitHub API client, lines 658-842: URLs, responses, the Link header  *)
(* and the classification of exceptions.                                   *)
(***************************************************************************)
\* GITHUB_REPOSITORY and INPUT_SKETCHES-REPORTS-SOURCE (lines 29-30).
repository_name == "octo/repo"
sketches_reports_source == "sketches-reports"

\* api_request, lines 671-672.
ApiUrl(request, request_parameters, page_number) ==
    "https://api.github.com/" \o request \o "?" \o request_parameters
        \o "&page=" \o ToString(page_number) \o "&per_page=100"

\* The URL of line 761.
RateLimitUrl == "https://api.github.com/rate_limit"

\* Lines 193, 252-253, 283-285 and 308-309: the request of each loop.
PullsUrl(page_number) ==
    ApiUrl("repos/" \o repository_name \o "/pulls", "", page_number)

CommentsUrl(pr_number, page_number) ==
    ApiUrl("repos/" \o repository_name \o "/issues/" \o ToString(pr_number)
               \o "/comments", "", page_number)

RunsUrl(pr_user_login, pr_head_ref, page_number) ==
    ApiUrl("repos/" \o repository_name \o "/actions/runs",
           "actor=" \o pr_user_login \o "&branch=" \o pr_head_ref
               \o "&event=pull_request&status=completed", page_number)

ArtifactsUrl(run_id, page_number) ==
    ApiUrl("repos/" \o repository_name \o "/actions/runs/" \o ToString(run_id)
               \o "/artifacts", "", page_number)

\* Lines 651-655: the URL a comment is posted to.
CommentPostUrl(pr_number) ==
    "https://api.github.com/repos/" \o repository_name \o "/issues/"
        \o ToString(pr_number) \o "/comments"

\* Line 747: the URLs whose opening is preceded by handle_rate_limiting.
RateLimited(url) ==
    /\ StartsWith(url, "https://api.github.com")
    /\ ~StartsWith(url, "https://api.github.com/rate_limit")

\* str.split / re.split: the pieces of s between the characters of seps,
\* given the positions of those characters with 0 and Len(s) + 1.
PiecesBetween(s, bounds) ==
    [k \in 1..(Cardinality(bounds) - 1) |->
        LET from == CHOOSE b \in bounds : Cardinality({c \in bounds : c < b}) = k - 1
            to   == CHOOSE b \in bounds : Cardinality({c \in bounds : c < b}) = k
        IN  SubSeq(s, from + 1, to - 1)]

\* F of the value, which is computed once.
With(value, F(_)) == CHOOSE result \in {F(v) : v \in {value}} : TRUE

SplitOn(s, seps) ==
    With(s, LAMBDA t :
        With({0, Len(t) + 1} \cup {i \in 1..Len(t) : SubSeq(t, i, i) \in seps},
             LAMBDA bounds : PiecesBetween(t, bounds)))

\* s[-n:] and s[:n] of Python.
LastChars(s, n)  == IF Len(s) <= n THEN s ELSE SubSeq(s, Len(s) - n + 1, Len(s))
FirstChars(s, n) == IF Len(s) <= n THEN s ELSE SubSeq(s, 1, n)

\* Lines 837-840: the first parameter of the link that starts with "page="
\* gives the count; 1 stays when there is none.
PageOfLink(parameters) ==
    LET pages == {i \in 1..Len(parameters) : FirstChars(parameters[i], 5) = "page="}
    IN  IF pages = {} THEN 1
        ELSE LET i == CHOOSE j \in pages : \A k \in pages : j <= k
             IN  ParseInt(SplitOn(parameters[i], {"="})[2])

\* Lines 834-835: the links of the header that end with >; rel="last".
LastLink(links) ==
    {i \in 1..Len(links) : LastChars(links[i], 13) = ">; rel=\"last\""}

PageOfLinks(links, last) ==
    IF last = {} THEN 1
    ELSE With(SplitOn(links[CHOOSE j \in last : \A k \in last : j <= k],
                      {"?", "&", ">"}),
              PageOfLink)

PageOfHeader(links) ==
    With(links, LAMBDA l : With(LastLink(l), LAMBDA last : PageOfLinks(l, last)))

\* Mutant of get_page_count: the Link header is not read.
SinglePage(link_header) == 1

\* get_page_count, lines 825-842; link_header is None (<<>>) or << text >>.
get_page_count(link_header) ==
    IF link_header = <<>> THEN 1
    ELSE PageOfHeader(SplitOn(link_header[1], {","}))

\* An exception, and Python's str() of it.
HTTPError(code, reason) == [class |-> "HTTPError", code |-> code, text |-> reason]
Raised(class, text)     == [class |-> class, code |-> 0, text |-> text]

StrOfException(exception) ==
    IF exception.class = "HTTPError"
    THEN "HTTP Error " \o ToString(exception.code) \o ": " \o exception.text
    ELSE exception.text

\* Lines 785-807.
urlopen_retry_exceptions ==
    << "HTTPError: HTTP Error 403",
       "HTTPError: HTTP Error 502",
       "HTTPError: HTTP Error 503",
       "RemoteDisconnected",
       "ConnectionResetError",
       "ConnectionRefusedError",
       "<urlopen error [WinError 10061] No connection could be made because the target machine actively refused it>" >>

\* Line 809.
ExceptionString(exception) ==
    exception.class \o ": " \o StrOfException(exception)

\* Mutant of determine_urlopen_retry: every HTTPError is retried as well.
RetryEveryHTTPError(exception) ==
    \/ exception.class = "HTTPError"
    \/ \E i \in 1..Len(urlopen_retry_exceptions) :
          StartsWith(ExceptionString(exception), urlopen_retry_exceptions[i])

\* determine_urlopen_retry, lines 777-822 (the delay of line 815 takes time
\* and changes nothing).
determine_urlopen_retry(exception) ==
    \E i \in 1..Len(urlopen_retry_exceptions) :
        StartsWith(ExceptionString(exception), urlopen_retry_exceptions[i])

\* Line 733.
maximum_urlopen_retries == 3

\* Line 754.
TimeoutError == Raised("TimeoutError", "Maximum number of URL load retries exceeded")

\* A call of raw_http_request: its arguments, retry_count, where it stands
\* (at the test of line 742, or at urlopen of line 749 with the rate limit
\* checked) and how often it has called urlopen.
Request(url, data) ==
    [url |-> url, data |-> data, retry_count |-> 0, at |-> "while", opened |-> 0]

\* How a step of raw_http_request ends: the calls that go on, the exception
\* that leaves the outermost call (<<>> for none), whether sys.exit is
\* called.
Outcome(calls, raised, exit) == [http |-> calls, raised |-> raised, exit |-> exit]

\* The except clause of lines 750-752 in the innermost call of the stack,
\* and, when it raises, in the calls around it (the try of line 744 holds
\* handle_rate_limiting): the stack that goes on and the exception that
\* leaves raw_http_request (<<>> for none).  After a retried exception the
\* test of line 742 fails for retry_count 4 and line 754 raises.
RECURSIVE Except(_, _)
Except(stack, exception) ==
    IF stack = <<>> THEN Outcome(<<>>, << exception >>, FALSE)
    ELSE LET call == stack[Len(stack)]
             outer == SubSeq(stack, 1, Len(stack) - 1)
         IN  IF ~determine_urlopen_retry(exception)
             THEN Except(outer, exception)
             ELSE IF call.retry_count <= maximum_urlopen_retries
             THEN Outcome(Append(outer, [call EXCEPT !.at = "while"]), <<>>, FALSE)
             ELSE Except(outer, TimeoutError)

\* A response: the parsed body as of json.loads (json is FALSE for a body
\* that is not JSON) and the Link header (None is <<>>).
Response(json, value, link) ==
    [body |-> [json |-> json, value |-> value], headers |-> [Link |-> link]]

\* Python's truth value of a parsed JSON document: false for the empty list
\* and the empty object.
Truthy(json_data) == json_data # <<>>

\* get_json_response, lines 683-705.
get_json_response(response) ==
    IF ~response.body.json
    THEN [raised |-> << Raised("JSONDecodeError", "Expecting value: line 1 column 1 (char 0)") >>,
          json_data |-> <<>>, additional_pages |-> FALSE, page_count |-> 0]
    ELSE IF ~Truthy(response.body.value)
    THEN [raised |-> <<>>, json_data |-> response.body.value,
          additional_pages |-> FALSE, page_count |-> 0]
    ELSE [raised |-> <<>>, json_data |-> response.body.value,
          additional_pages |-> get_page_count(response.headers.Link) > 1,
          page_count |-> get_page_count(response.headers.Link)]

(***************************************************************************)
(* State                                                                   *)
(***************************************************************************)
VARIABLES
    pc,                      \* position in the caller / generate_report
    error,                   \* class of the exception raised, "" if none
    pr_items,                \* board entries read from the PR folder (line 375)
    master_items,            \* board entries read from the master folder
    sketches_reports,        \* generate_report's argument
    master_sketches_reports, \* generate_report's argument
    summary_report_data,
    detailed_report_data,
    board_count,
    row_number,
    column_number,
    board_index,             \* position of the loop of line 448 (1-based)
    sketch_index,            \* position of the loop of line 462 (1-based)
    minmax,                  \* flash_b_max .. ram_p_min of lines 452-459
    log,                     \* per processed sketch: the locals of lines 463-539
    report_markdown,         \* the returned text, <<>> before the return
    event,                   \* GITHUB_EVENT_NAME of the running invocation
    triggers,                \* the events of the invocations still to come
    pr_folder,               \* files of the PR folder / the artifact, as iterdir() lists them
                             \* in the running process
    master_folder,           \* files of the master folder, likewise
    report_filenames,        \* file names of the PR folder in the order read (line 366)
    prs,                     \* the open pull requests of the repository
    pr_index,                \* position of the loop of line 196 (1-based)
    comments,                \* per pull request number, the bodies of its comments
    destination_file,        \* text of INPUT_DESTINATION-FILE, <<>> if not written
    http,                    \* the calls of raw_http_request in progress, innermost last
    response,                \* what the last finished raw_http_request returned, <<>> before
    last_urlopen,            \* the last call of urlopen: the URL, retry_count, how many times
                             \* its caller has called urlopen, the exception or <<>>
    urls_logged,             \* the URLs of the "Opening URL" lines (line 736)
    page_number,             \* page_number of each of the four loops over pages
    page_count,              \* page_count of each of them
    api_data,                \* api_data of each of them
    run_index,               \* position of the loop of line 290 (1-based)
    quota,                   \* GitHub: core requests remaining to the token
    network,                 \* the exceptions urlopen may raise in this run
    page_size                \* GitHub: the items of one page of a response

\* The state of the API client, of the loops over pages, and of GitHub.
client == << http, response, last_urlopen, urls_logged >>
paging == << page_number, page_count, api_data, run_index >>
github == << quota, network, page_size >>

\* The state outside generate_report.
caller == << event, triggers, pr_folder, master_folder, report_filenames, prs,
             pr_index, comments, destination_file, client, paging, github >>

vars == << pc, error, pr_items, master_items, sketches_reports,
           master_sketches_reports, summary_report_data, detailed_report_data,
           board_count, row_number, column_number, board_index, sketch_index,
           minmax, log, report_markdown, caller >>

(***************************************************************************)
(* GitHub: what the server answers                                         *)
(***************************************************************************)
\* An open pull request: its number, the hash of its head commit, whether
\* it is locked, and whether a completed run of its head commit has an
\* artifact of the wanted name.
PullRequest(number, sha, locked, artifact) ==
    [number |-> number, sha |-> sha, locked |-> locked, artifact |-> artifact]

\* The pull request as an element of the pulls response (lines 198-215).
PrData(pull) ==
    [number |-> pull.number,
     locked |-> pull.locked,
     head   |-> [sha |-> pull.sha, ref |-> "patch-" \o ToString(pull.number)],
     user   |-> [login |-> "dev"]]

PageCountOf(items) == (Len(items) + page_size - 1) \div page_size

PageOf(items, page) ==
    SubSeq(items, (page - 1) * page_size + 1,
           IF page * page_size < Len(items) THEN page * page_size ELSE Len(items))

Link(path, page, rel) ==
    "<https://api.github.com/" \o path \o "?page=" \o ToString(page)
        \o "&per_page=100>; rel=\"" \o rel \o "\""

\* The Link header of page `page` of `last` pages: none for a single page;
\* prev and first from the second page on; next and last before the last.
LinkHeader(path, page, last) ==
    IF last <= 1 THEN <<>>
    ELSE IF page = 1
    THEN << Link(path, 2, "next") \o ", " \o Link(path, last, "last") >>
    ELSE IF page < last
    THEN << Link(path, page - 1, "prev") \o ", " \o Link(path, page + 1, "next")
              \o ", " \o Link(path, last, "last") \o ", " \o Link(path, 1, "first") >>
    ELSE << Link(path, page - 1, "prev") \o ", " \o Link(path, 1, "first") >>

PagedResponse(path, items, page) ==
    Response(TRUE, PageOf(items, page), LinkHeader(path, page, PageCountOf(items)))

\* The URL GitHub gives for the archive of the artifact of a run.
ArchiveUrl(run_id) ==
    "https://api.github.com/repos/" \o repository_name \o "/actions/artifacts/"
        \o ToString(run_id) \o "/zip"

\* The completed runs of the branch of a pull request: one of an earlier
\* commit, and one of the head commit if that has an artifact.
RunsOfPull(pull) ==
    << [id |-> 100 + pull.number, head_sha |-> "0ddba11"] >>
        \o (IF pull.artifact
            THEN << [id |-> pull.number, head_sha |-> pull.sha] >>
            ELSE <<>>)

ArtifactsOfRun(run_id) ==
    << [expired |-> FALSE, name |-> "logs",
        archive_download_url |-> ArchiveUrl(1000 + run_id)],
       [expired |-> FALSE, name |-> sketches_reports_source,
        archive_download_url |-> ArchiveUrl(run_id)] >>

PagesOf(items) == 1..(Len(items) + 1)

RunIds == UNION {{RunsOfPull(prs[i])[k].id : k \in 1..Len(RunsOfPull(prs[i]))} :
                    i \in 1..Len(prs)}

\* The answer to a request that GitHub answers: the response, or the HTTP
\* error for a URL it does not know.
Answer(resp) == [raised |-> <<>>, response |-> resp]

Serve(url, data) ==
    IF url = RateLimitUrl
    THEN Answer(Response(TRUE, [resources |->
                            [core |-> [limit |-> 5000, remaining |-> quota,
                                       reset |-> 0]]], <<>>))
    ELSE IF \E p \in PagesOf(prs) : url = PullsUrl(p)
    THEN Answer(PagedResponse("repositories/1/pulls",
                       [i \in 1..Len(prs) |-> PrData(prs[i])],
                       CHOOSE p \in PagesOf(prs) : url = PullsUrl(p)))
    ELSE IF data = <<>> /\ \E n \in DOMAIN comments :
                              \E p \in PagesOf(comments[n]) : url = CommentsUrl(n, p)
    THEN LET n == CHOOSE m \in DOMAIN comments :
                      \E p \in PagesOf(comments[m]) : url = CommentsUrl(m, p)
         IN  Answer(PagedResponse("repositories/1/issues/" \o ToString(n) \o "/comments",
                           [i \in 1..Len(comments[n]) |-> [body |-> comments[n][i]]],
                           CHOOSE p \in PagesOf(comments[n]) : url = CommentsUrl(n, p)))
    ELSE IF \E i \in 1..Len(prs) :
                url = RunsUrl(PrData(prs[i]).user.login, PrData(prs[i]).head.ref, 1)
    THEN LET pull == prs[CHOOSE i \in 1..Len(prs) :
                            url = RunsUrl(PrData(prs[i]).user.login,
                                          PrData(prs[i]).head.ref, 1)]
         IN  Answer(Response(TRUE, [total_count |-> Len(RunsOfPull(pull)),
                             workflow_runs |-> RunsOfPull(pull)], <<>>))
    ELSE IF \E id \in RunIds : url = ArtifactsUrl(id, 1)
    THEN LET id == CHOOSE r \in RunIds : url = ArtifactsUrl(r, 1)
         IN  Answer(Response(TRUE, [total_count |-> Len(ArtifactsOfRun(id)),
                             artifacts |-> ArtifactsOfRun(id)], <<>>))
    ELSE IF \E id \in RunIds : url = ArchiveUrl(id)
    THEN Answer(Response(FALSE, pr_folder, <<>>))
    ELSE IF data # <<>> /\ \E n \in DOMAIN comments : url = CommentPostUrl(n)
    THEN Answer(Response(TRUE, [body |-> data[1]], <<>>))
    ELSE [raised |-> << HTTPError(404, "Not Found") >>, response |-> <<>>]

\* The comments after GitHub has answered the request: a posted body is
\* the last comment of its thread.
Posted(url, data) ==
    IF data # <<>> /\ \E n \in DOMAIN comments : url = CommentPostUrl(n)
    THEN [comments EXCEPT ![CHOOSE n \in DOMAIN comments : url = CommentPostUrl(n)]
                              = Append(@, data[1])]
    ELSE comments

(***************************************************************************)
(* Actions                                                                 *)
(***************************************************************************)
LocalEvents == {"pull_request", "workflow_run", "schedule", "push"}

\* The pull request number of INPUT_PR-NUMBER (line 32).
InputPrNumber == 1

\* The variables of generate_report.
report_state == << summary_report_data, detailed_report_data, board_count,
                   row_number, column_number, board_index, sketch_index,
                   minmax, log, report_markdown >>

\* The four loops over the pages of a response: lines 190-240, 249-264,
\* 277-297 and 304-320.
Loops == {"pulls", "comments", "runs", "artifacts"}

FirstPage == [loop \in Loops |-> 1]

NoApiData == [loop \in Loops |-> <<>>]

\* The last call of urlopen, before the first.
NotOpened == [url |-> "", retry_count |-> 0, attempt |-> 0, raised |-> <<>>]

\* The orders in which iterdir() (line 365) may list the files of a folder.
Orders(files) ==
    {[i \in 1..Len(files) |-> files[p[i]]] :
        p \in {q \in [1..Len(files) -> 1..Len(files)] :
                  \A i, j \in 1..Len(files) : q[i] = q[j] => i = j}}

\* main and report_size_deltas, lines 21-34 and 111-130: a new process for
\* the next event; a pull_request, workflow_run, schedule or push event
\* reads local folders, every other event scans the pull requests.  The
\* comments and the destination file outlive the process; the folders hold
\* the same files, which this process's iterdir() lists in any order.
report_size_deltas ==
    /\ pc \in {"start", "done", "raised", "exited"}
    /\ triggers # <<>>
    /\ event' = Head(triggers)
    /\ triggers' = Tail(triggers)
    /\ pc' = IF Head(triggers) \in LocalEvents THEN "load" ELSE "pulls"
    /\ error' = ""
    /\ pr_items' = <<>>
    /\ master_items' = <<>>
    /\ sketches_reports' = <<>>
    /\ master_sketches_reports' = <<>>
    /\ summary_report_data' = <<>>
    /\ detailed_report_data' = <<>>
    /\ board_count' = 0
    /\ row_number' = 0
    /\ column_number' = 0
    /\ board_index' = 0
    /\ sketch_index' = 0
    /\ minmax' = Seeds
    /\ log' = <<>>
    /\ report_markdown' = <<>>
    /\ report_filenames' = <<>>
    /\ pr_index' = 1
    /\ pr_folder' \in Orders(pr_folder)
    /\ master_folder' \in Orders(master_folder)
    /\ http' = <<>>
    /\ response' = <<>>
    /\ last_urlopen' = NotOpened
    /\ urls_logged' = <<>>
    /\ page_number' = FirstPage
    /\ page_count' = FirstPage
    /\ api_data' = NoApiData
    /\ run_index' = 1
    /\ UNCHANGED << prs, comments, destination_file, github >>

\* The callers of lines 132-183 up to the call of generate_report:
\* get_sketches_reports on the PR folder, for a workflow_run event then on
\* the master folder too (lines 147-152); generate_report is called only
\* for a truthy PR result, without master_sketches_reports (None) by the
\* other callers.  An exception of get_sketches_reports ends the process.
\* Mutant of LoadReports: generate_report is called without the test of
\* lines 137, 154 and 171.
LoadReportsUnguarded(pr, master) ==
    /\ report_filenames' = pr.filenames
    /\ pr_items' = pr.items
    /\ master_items' = master.items
    /\ sketches_reports' = pr.result
    /\ master_sketches_reports' = master.result
    /\ error' = (IF pr.raised # "" THEN pr.raised ELSE master.raised)
    /\ pc' = IF pr.raised # "" \/ master.raised # "" THEN "raised" ELSE "setup"

LoadReports(pr, master) ==
    /\ report_filenames' = pr.filenames
    /\ pr_items' = pr.items
    /\ master_items' = master.items
    /\ sketches_reports' = pr.result
    /\ master_sketches_reports' = master.result
    /\ error' = (IF pr.raised # "" THEN pr.raised ELSE master.raised)
    /\ pc' = IF pr.raised # "" \/ master.raised # "" THEN "raised"
             ELSE IF pr.result # <<>> THEN "setup" ELSE "done"

\* The value of master_sketches_reports: read on lines 151-152 under a
\* workflow_run event when line 148 did not raise, None otherwise.
LoadMaster(pr) ==
    LoadReports(pr,
                IF event = "workflow_run" /\ pr.raised = ""
                THEN get_sketches_reports(master_folder)
                ELSE [raised |-> "", filenames |-> <<>>, items |-> <<>>,
                      result |-> <<>>])

GetSketchesReports ==
    /\ pc = "load"
    /\ LoadMaster(get_sketches_reports(pr_folder))
    /\ UNCHANGED << report_state, event, triggers, pr_folder, master_folder,
                    prs, pr_index, comments, destination_file, client, paging,
                    github >>

\* raw_http_request is called, lines 725-741: the URL is logged, the loop of
\* line 742 is about to start.
Call(url, data) ==
    /\ http' = << Request(url, data) >>
    /\ urls_logged' = Append(urls_logged, url)
    /\ response' = <<>>

\* The caller goes on without a request.
NoCall == UNCHANGED << http, urls_logged, response >>

\* An exception leaves the process.
Raise(exception) == pc' = "raised" /\ error' = exception.class

Goto(position) == pc' = position /\ UNCHANGED error

\* The response has come back to the caller that waits at this position.
Back(position) == pc = position /\ http = <<>> /\ response # <<>>

\* The pull request of the loop of line 196.
pr_data == api_data.pulls.json_data[pr_index]

\* Lines 190-195 and 239-240: the loop over the pages of the open pull
\* requests; the scan is over when it ends.
GetPullRequests ==
    /\ \/ pc = "pulls"
       \/ Back("pulls_page")
    /\ IF pc = "pulls"
       THEN /\ IF page_number.pulls <= page_count.pulls
               THEN Call(PullsUrl(page_number.pulls), <<>>) /\ Goto("pulls_page")
               ELSE NoCall /\ Goto("done")
            /\ UNCHANGED << api_data, pr_index >>
       ELSE /\ NoCall
            /\ IF get_json_response(response[1]).raised # <<>>
               THEN /\ Raise(get_json_response(response[1]).raised[1])
                    /\ UNCHANGED << api_data, pr_index >>
               ELSE /\ api_data' = [api_data EXCEPT !.pulls = get_json_response(response[1])]
                    /\ pr_index' = 1
                    /\ Goto("scan")
    /\ UNCHANGED << pr_items, master_items, sketches_reports,
                    master_sketches_reports, report_state, event, triggers,
                    pr_folder, master_folder, report_filenames, prs, comments,
                    destination_file, last_urlopen, page_number, page_count,
                    run_index, github >>

\* The loop of line 196 goes on with the next pull request.
NextPullRequest == pr_index' = pr_index + 1 /\ Goto("scan")

\* Lines 196-208 and 239-240: the next pull request of the page; a locked
\* one is skipped, for another report_exists is called; after the last, the
\* next page.
ScanPullRequest ==
    /\ pc = "scan"
    /\ IF pr_index > Len(api_data.pulls.json_data)
       THEN /\ page_number' = [page_number EXCEPT !.pulls = @ + 1]
            /\ page_count' = [page_count EXCEPT !.pulls = api_data.pulls.page_count]
            /\ Goto("pulls")
            /\ UNCHANGED pr_index
       ELSE IF pr_data.locked
       THEN NextPullRequest /\ UNCHANGED << page_number, page_count >>
       ELSE /\ page_number' = [page_number EXCEPT !.comments = 1]
            /\ page_count' = [page_count EXCEPT !.comments = 1]
            /\ Goto("comments")
            /\ UNCHANGED pr_index
    /\ UNCHANGED << pr_items, master_items, sketches_reports,
                    master_sketches_reports, report_state, event, triggers,
                    pr_folder, master_folder, report_filenames, prs, comments,
                    destination_file, client, api_data, run_index, github >>

\* The bodies of the comments of a page.
Bodies(comments_data) == [i \in 1..Len(comments_data) |-> comments_data[i].body]

\* report_exists, lines 242-267, and its caller, lines 208-214: the loop
\* over the pages of the comments.  A pull request with a report is
\* skipped; for another get_artifact_download_url_for_sha is called.
ReportExists ==
    /\ \/ pc = "comments"
       \/ Back("comments_page")
    /\ IF pc = "comments"
       THEN /\ IF page_number.comments <= page_count.comments
               THEN /\ Call(CommentsUrl(pr_data.number, page_number.comments), <<>>)
                    /\ Goto("comments_page")
                    /\ UNCHANGED << page_number, page_count >>
               ELSE /\ NoCall
                    /\ page_number' = [page_number EXCEPT !.runs = 1]
                    /\ page_count' = [page_count EXCEPT !.runs = 1]
                    /\ Goto("runs")
            /\ UNCHANGED pr_index
       ELSE /\ NoCall
            /\ IF get_json_response(response[1]).raised # <<>>
               THEN /\ Raise(get_json_response(response[1]).raised[1])
                    /\ UNCHANGED << page_number, page_count, pr_index >>
               ELSE IF report_exists(Bodies(get_json_response(response[1]).json_data),
                                     pr_data.head.sha)
               THEN NextPullRequest /\ UNCHANGED << page_number, page_count >>
               ELSE /\ page_number' = [page_number EXCEPT !.comments = @ + 1]
                    /\ page_count' = [page_count EXCEPT
                                         !.comments = get_json_response(response[1]).page_count]
                    /\ Goto("comments")
                    /\ UNCHANGED pr_index
    /\ UNCHANGED << pr_items, master_items, sketches_reports,
                    master_sketches_reports, report_state, event, triggers,
                    pr_folder, master_folder, report_filenames, prs, comments,
                    destination_file, last_urlopen, api_data, run_index, github >>

\* Lines 316-318: the unexpired artifacts of the page that have the wanted
\* name.
Wanted(artifacts_data) ==
    {i \in 1..Len(artifacts_data.artifacts) :
        /\ ~artifacts_data.artifacts[i].expired
        /\ artifacts_data.artifacts[i].name = sketches_reports_source}

\* get_artifact_download_url_for_sha, lines 269-299, with
\* get_artifact_download_url_for_run, lines 301-326, and their caller,
\* lines 214-221: the runs of the head commit are searched for an artifact
\* of the wanted name, which get_artifact then requests (line 340); without
\* one the pull request is skipped.
GetArtifactDownloadUrl ==
    /\ \/ pc \in {"runs", "run", "artifacts"}
       \/ Back("runs_page")
       \/ Back("artifacts_page")
    /\ IF pc = "runs"
       THEN /\ IF page_number.runs <= page_count.runs
               THEN /\ Call(RunsUrl(pr_data.user.login, pr_data.head.ref,
                                    page_number.runs), <<>>)
                    /\ Goto("runs_page")
                    /\ UNCHANGED pr_index
               ELSE NoCall /\ NextPullRequest
            /\ UNCHANGED << page_number, page_count, api_data, run_index >>
       ELSE IF pc = "runs_page"
       THEN /\ NoCall
            /\ IF get_json_response(response[1]).raised # <<>>
               THEN /\ Raise(get_json_response(response[1]).raised[1])
                    /\ UNCHANGED << api_data, run_index >>
               ELSE /\ api_data' = [api_data EXCEPT !.runs = get_json_response(response[1])]
                    /\ run_index' = 1
                    /\ Goto("run")
            /\ UNCHANGED << page_number, page_count, pr_index >>
       ELSE IF pc = "run"
       THEN /\ NoCall
            /\ IF run_index > Len(api_data.runs.json_data.workflow_runs)
               THEN /\ page_number' = [page_number EXCEPT !.runs = @ + 1]
                    /\ page_count' = [page_count EXCEPT !.runs = api_data.runs.page_count]
                    /\ Goto("runs")
                    /\ UNCHANGED run_index
               ELSE IF api_data.runs.json_data.workflow_runs[run_index].head_sha
                          = pr_data.head.sha
               THEN /\ page_number' = [page_number EXCEPT !.artifacts = 1]
                    /\ page_count' = [page_count EXCEPT !.artifacts = 1]
                    /\ Goto("artifacts")
                    /\ UNCHANGED run_index
               ELSE /\ run_index' = run_index + 1
                    /\ Goto("run")
                    /\ UNCHANGED << page_number, page_count >>
            /\ UNCHANGED << api_data, pr_index >>
       ELSE IF pc = "artifacts"
       THEN /\ IF page_number.artifacts <= page_count.artifacts
               THEN /\ Call(ArtifactsUrl(api_data.runs.json_data.workflow_runs[run_index].id,
                                         page_number.artifacts), <<>>)
                    /\ Goto("artifacts_page")
                    /\ UNCHANGED run_index
               ELSE /\ NoCall
                    /\ run_index' = run_index + 1
                    /\ Goto("run")
            /\ UNCHANGED << page_number, page_count, api_data, pr_index >>
       ELSE /\ IF get_json_response(response[1]).raised # <<>>
               THEN /\ NoCall
                    /\ Raise(get_json_response(response[1]).raised[1])
                    /\ UNCHANGED << page_number, page_count >>
               ELSE IF Wanted(get_json_response(response[1]).json_data) # {}
               THEN /\ Call(get_json_response(response[1]).json_data.artifacts[
                               CHOOSE i \in Wanted(get_json_response(response[1]).json_data) :
                                   \A j \in Wanted(get_json_response(response[1]).json_data) :
                                       i <= j].archive_download_url, <<>>)
                    /\ Goto("download")
                    /\ UNCHANGED << page_number, page_count >>
               ELSE /\ NoCall
                    /\ page_number' = [page_number EXCEPT !.artifacts = @ + 1]
                    /\ page_count' = [page_count EXCEPT
                                         !.artifacts = get_json_response(response[1]).page_count]
                    /\ Goto("artifacts")
            /\ UNCHANGED << api_data, run_index, pr_index >>
    /\ UNCHANGED << pr_items, master_items, sketches_reports,
                    master_sketches_reports, report_state, event, triggers,
                    pr_folder, master_folder, report_filenames, prs, comments,
                    destination_file, last_urlopen, github >>

\* Lines 223-235 for a pull request that is not skipped: the artifact's
\* files are read; the pull request is passed over when they hold no board
\* entry or name another commit.
ScanArtifact(pr_head_sha, read) ==
    /\ report_filenames' = read.filenames
    /\ pr_items' = read.items
    /\ sketches_reports' = read.result
    /\ IF read.raised # ""
       THEN pc' = "raised" /\ error' = read.raised /\ UNCHANGED pr_index
       ELSE IF read.result = <<>>
       THEN NextPullRequest
       ELSE IF "commit_hash" \notin DOMAIN read.result[1]
       THEN pc' = "raised" /\ error' = "KeyError" /\ UNCHANGED pr_index
       ELSE IF read.result[1].commit_hash # pr_head_sha
       THEN NextPullRequest
       ELSE pc' = "setup" /\ UNCHANGED << error, pr_index >>

\* get_artifact, lines 328-352, and its caller, lines 221-235: the archive
\* that came back is unpacked into a folder, whose report files are read.
GetArtifact ==
    /\ Back("download")
    /\ ScanArtifact(pr_data.head.sha, get_sketches_reports(response[1].body.value))
    /\ UNCHANGED << report_state, master_items, master_sketches_reports,
                    event, triggers, pr_folder, master_folder, prs, comments,
                    destination_file, client, paging, github >>

\* handle_rate_limiting is called, lines 742-748 and 761: the next pass of
\* the loop of a call for a rate limited URL starts, retry_count is
\* counted up and the rate limit is requested.
HandleRateLimiting ==
    /\ http # <<>>
    /\ http[Len(http)].at = "while"
    /\ RateLimited(http[Len(http)].url)
    /\ http' = [http EXCEPT ![Len(http)].retry_count = @ + 1]
                  \o << Request(RateLimitUrl, <<>>) >>
    /\ urls_logged' = Append(urls_logged, RateLimitUrl)
    /\ UNCHANGED << pc, error, pr_items, master_items, sketches_reports,
                    master_sketches_reports, report_state, event, triggers,
                    pr_folder, master_folder, report_filenames, prs, pr_index,
                    comments, destination_file, response, last_urlopen, paging,
                    github >>

\* What urlopen may do with a URL: raise one of the exceptions of the
\* network, or come back; GitHub answers a URL it does not know with 404.
Outcomes(call) ==
    { << e >> : e \in network }
        \cup { Serve(call.url, call.data).raised }

\* Lines 761-774 once the rate limit has come back: the call around goes on
\* to urlopen, or the process exits.
RateLimitChecked(calls, rate_limiting_data) ==
    IF rate_limiting_data.raised # <<>>
    THEN Except(calls, rate_limiting_data.raised[1])
    ELSE IF rate_limiting_data.json_data.resources.core.remaining = 0
    THEN Outcome(<<>>, <<>>, TRUE)
    ELSE Outcome([calls EXCEPT ![Len(calls)].at = "urlopen"], <<>>, FALSE)

\* Mutant of Opened: the call of handle_rate_limiting that ends with a
\* rate limit of 0 goes on to urlopen.
OpenedUngated(calls, call, outcome) ==
    IF outcome # <<>>
    THEN Except(Append(calls, call), outcome[1])
    ELSE IF call.url = RateLimitUrl /\ calls # <<>>
    THEN Outcome([calls EXCEPT ![Len(calls)].at = "urlopen"], <<>>, FALSE)
    ELSE Outcome(calls, <<>>, FALSE)

\* The calls in progress after urlopen of the innermost, `call`, has ended
\* with the outcome: an exception goes to the except clause; a rate limit
\* goes back to handle_rate_limiting; another response is returned.
Opened(calls, call, outcome) ==
    IF outcome # <<>>
    THEN Except(Append(calls, call), outcome[1])
    ELSE IF call.url = RateLimitUrl /\ calls # <<>>
    THEN RateLimitChecked(calls,
                          get_json_response(Serve(call.url, call.data).response))
    ELSE Outcome(calls, <<>>, FALSE)

\* After urlopen: the calls that go on; the exception that leaves
\* raw_http_request ends the process; sys.exit(0) ends it with status 0.
\* A response that comes back from GitHub has used one request of the
\* quota, and a posted comment is in its thread.
Continue(call, outcome, after) ==
    /\ http' = after.http
    /\ last_urlopen' = [url |-> call.url, retry_count |-> call.retry_count,
                        attempt |-> call.opened, raised |-> outcome]
    /\ IF after.raised # <<>>
       THEN Raise(after.raised[1])
       ELSE IF after.exit
       THEN pc' = "exited" /\ UNCHANGED error
       ELSE UNCHANGED << pc, error >>
    /\ IF outcome = <<>> /\ after.http = <<>> /\ after.raised = <<>> /\ ~after.exit
       THEN /\ response' = << Serve(call.url, call.data).response >>
            /\ comments' = Posted(call.url, call.data)
            /\ quota' = IF RateLimited(call.url) /\ quota > 0 THEN quota - 1 ELSE quota
       ELSE UNCHANGED << response, comments, quota >>

\* urlopen, lines 742-754 with handle_rate_limiting, lines 757-774, and
\* determine_urlopen_retry: the innermost call opens its URL, at the start
\* of a pass of the loop for the rate limit URL, after handle_rate_limiting
\* for another.
UrlOpen ==
    /\ http # <<>>
    /\ \/ http[Len(http)].at = "urlopen"
       \/ ~RateLimited(http[Len(http)].url)
    /\ \E outcome \in Outcomes(http[Len(http)]) :
          LET call == [http[Len(http)] EXCEPT
                          !.retry_count = IF http[Len(http)].at = "while"
                                          THEN @ + 1 ELSE @,
                          !.opened = @ + 1]
          IN  Continue(call, outcome,
                       Opened(SubSeq(http, 1, Len(http) - 1), call, outcome))
    /\ UNCHANGED << pr_items, master_items, sketches_reports,
                    master_sketches_reports, report_state, event, triggers,
                    pr_folder, master_folder, report_filenames, prs, pr_index,
                    destination_file, urls_logged, paging, network, page_size >>

\* Line 409; no later line reads it.
maximum_report_length == 262144

\* Lines 422-446: the heading rows, the counters, board_count.
Setup ==
    /\ pc = "setup"
    /\ summary_report_data' =
         << << StrCell("Memory"), StrCell("FLASH [bytes]"), StrCell("FLASH [%]"),
               StrCell("RAM [bytes]"), StrCell("RAM [%]") >>,
            << StrCell("Target"), StrCell("Min"), StrCell("Max"), StrCell("Min"),
               StrCell("Max"), StrCell("Min"), StrCell("Max"), StrCell("Min"),
               StrCell("Max") >> >>
    /\ board_count' = Len(sketches_reports)
    /\ detailed_report_data' =
         << << StrCell("Target") >>,
            << StrCell("Example") >> \o
            Flatten([i \in 1..Len(sketches_reports) |->
                        << StrCell("FLASH"), StrCell("RAM") >>]) >>
    /\ row_number' = 0
    /\ column_number' = 1
    /\ board_index' = 1
    /\ pc' = "board"
    /\ UNCHANGED << error, pr_items, master_items, sketches_reports,
                    master_sketches_reports, sketch_index, minmax, log,
                    report_markdown,
                    caller >>

\* Lines 448-459: the next board's heading and seeds.
BeginBoard ==
    /\ pc = "board"
    /\ board_index <= Len(sketches_reports)
    /\ detailed_report_data' =
         [detailed_report_data EXCEPT
            ![1] = Append(@, StrCell(Upper(sketches_reports[board_index].target)))]
    /\ minmax' = Seeds
    /\ sketch_index' = 1
    /\ pc' = "sketch"
    /\ UNCHANGED << error, pr_items, master_items, sketches_reports,
                    master_sketches_reports, summary_report_data, board_count,
                    row_number, column_number, board_index, log,
                    report_markdown,
                    caller >>

\* Lines 535-539: the two cells of the sketch's row under the board.
WriteCells(data, row, column, flash, ram) ==
    [data EXCEPT ![row + 1][column + 1] = flash, ![row + 1][column + 2] = ram]

\* Lines 462-539: one sketch of the current board.
ProcessSketch ==
    /\ pc = "sketch"
    /\ sketch_index <= Len(sketches_reports[board_index].sketches)
    /\ LET board         == sketches_reports[board_index]
           sketch        == board.sketches[sketch_index]
           sketch_name   == DisplayName(sketch.name)
           position      == get_report_row_number(detailed_report_data, sketch_name)
           with_row      == IF position = 0
                            THEN Append(detailed_report_data,
                                        NewRow(sketch_name, board_count))
                            ELSE detailed_report_data
           row           == IF position = 0 THEN Len(with_row) - 1 ELSE position
           master_sketch == MasterLookup(master_sketches_reports,
                                         board.target, sketch.name)
           raised        == IF master_sketch # <<>>
                            THEN DeltaError(sketch, master_sketch[1])
                            ELSE ""
           d             == IF master_sketch # <<>>
                            THEN Deltas(sketch, master_sketch[1])
                            ELSE <<>>
           entry         == [board |-> board_index, sketch |-> sketch_index,
                             row |-> row, column |-> column_number,
                             master_sketch |-> master_sketch, deltas |-> d]
       IN  /\ row_number' = row
           /\ log' = Append(log, entry)
           /\ IF raised # ""
              THEN /\ pc' = "raised"
                   /\ error' = raised
                   /\ detailed_report_data' = with_row
                   /\ UNCHANGED << minmax, sketch_index >>
              ELSE /\ IF master_sketch # <<>>
                      THEN /\ minmax' = Fold(minmax, d)
                           /\ detailed_report_data' =
                                WriteCells(with_row, row, column_number,
                                           d.flash_delta_bytes,
                                           d.ram_delta_bytes)
                      ELSE /\ minmax' = minmax
                           /\ detailed_report_data' =
                                WriteCells(with_row, row, column_number,
                                           StrCell(""), StrCell(""))
                   /\ sketch_index' = sketch_index + 1
                   /\ UNCHANGED << pc, error >>
    /\ UNCHANGED << pr_items, master_items, sketches_reports,
                    master_sketches_reports, summary_report_data, board_count,
                    column_number, board_index, report_markdown,
                    caller >>

\* Lines 545-555: the board's summary row; the next board's columns.
EndBoard ==
    /\ pc = "sketch"
    /\ sketch_index > Len(sketches_reports[board_index].sketches)
    /\ summary_report_data' =
         Append(summary_report_data,
                SummaryRow(sketches_reports[board_index].target, minmax))
    /\ column_number' = column_number + 2
    /\ board_index' = board_index + 1
    /\ pc' = "board"
    /\ UNCHANGED << error, pr_items, master_items, sketches_reports,
                    master_sketches_reports, detailed_report_data, board_count,
                    row_number, sketch_index, minmax, log, report_markdown,
                    caller >>

\* Lines 564-584.
RenderDetail ==
    /\ pc = "board"
    /\ board_index > Len(sketches_reports)
    /\ detailed_report_data' = RenderDetailTable(detailed_report_data)
    /\ pc' = "render_summary"
    /\ UNCHANGED << error, pr_items, master_items, sketches_reports,
                    master_sketches_reports, summary_report_data, board_count,
                    row_number, column_number, board_index, sketch_index,
                    minmax, log, report_markdown,
                    caller >>

\* Lines 587-617.
RenderSummary ==
    /\ pc = "render_summary"
    /\ summary_report_data' = RenderSummaryTable(summary_report_data)
    /\ pc' = "assemble"
    /\ UNCHANGED << error, pr_items, master_items, sketches_reports,
                    master_sketches_reports, detailed_report_data, board_count,
                    row_number, column_number, board_index, sketch_index,
                    minmax, log, report_markdown,
                    caller >>

\* Lines 619-637: the report is returned to the caller.
Assemble ==
    /\ pc = "assemble"
    /\ report_markdown' = ReportMarkdown(summary_report_data, detailed_report_data)
    /\ pc' = "post"
    /\ UNCHANGED << error, pr_items, master_items, sketches_reports,
                    master_sketches_reports, summary_report_data,
                    detailed_report_data, board_count, row_number,
                    column_number, board_index, sketch_index, minmax, log,
                    caller >>

\* The values datetime.now() may format to (lines 175-178).
Timestamps == {"Nov-03-2026 09:00:00", "Nov-03-2026 09:00:01"}

\* comment_report, lines 639-656, called on lines 143, 162 and 237: the
\* report is posted to the thread of the pull request.  After that the
\* scan goes on with the next pull request.
CommentReport ==
    /\ event \notin {"schedule", "push"}
    /\ \/ pc = "post"
       \/ Back("posted")
    /\ IF pc = "post"
       THEN /\ Call(CommentPostUrl(IF event \in LocalEvents THEN InputPrNumber
                                   ELSE pr_data.number),
                    << report_markdown >>)
            /\ Goto("posted")
            /\ UNCHANGED pr_index
       ELSE /\ NoCall
            /\ IF event \in LocalEvents
               THEN Goto("done") /\ UNCHANGED pr_index
               ELSE NextPullRequest
    /\ UNCHANGED << pr_items, master_items, sketches_reports,
                    master_sketches_reports, report_state, event, triggers,
                    pr_folder, master_folder, report_filenames, prs, comments,
                    destination_file, last_urlopen, paging, github >>

\* Lines 174-183: the report and the time are written to the destination
\* file.
WriteReport ==
    /\ pc = "post"
    /\ event \in {"schedule", "push"}
    /\ \E dt_string \in Timestamps :
          destination_file' =
              report_markdown \o << "\nGenerated on: " \o dt_string \o "\n" >>
    /\ pc' = "done"
    /\ UNCHANGED << error, pr_items, master_items, sketches_reports,
                    master_sketches_reports, report_state, event, triggers,
                    pr_folder, master_folder, report_filenames, prs, pr_index,
                    comments, client, paging, github >>

Next ==
    \/ report_size_deltas
    \/ GetSketchesReports
    \/ GetPullRequests
    \/ ScanPullRequest
    \/ ReportExists
    \/ GetArtifactDownloadUrl
    \/ GetArtifact
    \/ HandleRateLimiting
    \/ UrlOpen
    \/ Setup
    \/ BeginBoard
    \/ ProcessSketch
    \/ EndBoard
    \/ RenderDetail
    \/ RenderSummary
    \/ Assemble
    \/ CommentReport
    \/ WriteReport

(***************************************************************************)
(* Inputs                                                                  *)
(***************************************************************************)
SeqsUpTo(S, n) == UNION {[1..k -> S] : k \in 0..n}

\* The ways to cut a list of len elements into n consecutive parts.
Cuts(n, len) ==
    {c \in [0..n -> 0..len] :
        /\ c[0] = 0
        /\ c[n] = len
        /\ \A i \in 1..n : c[i - 1] <= c[i]}

\* Every list of at most maxF board entries, each with a board identifier
\* and a target of H, that holds at most maxS sketches of S in all.
ItemsOf(H, S, maxF, maxS) ==
    UNION {
        {[i \in 1..n |->
             Board(h[i].board, h[i].target, SubSeq(all, c[i - 1] + 1, c[i]))] :
            h \in [1..n -> H], c \in Cuts(n, Len(all))} :
        n \in 0..maxF, all \in SeqsUpTo(S, maxS)}

PrNumbers == {1, 2}

NoComments == [n \in PrNumbers |-> <<>>]

\* The state before the first process starts: the events to come, the two
\* folders as iterdir() lists them, the open pull requests and the
\* comments they have, the quota, the exceptions of the network and the
\* size of a page.
StartOnline(events, pr_files, master_files, pulls, threads, requests, exceptions,
            items) ==
    /\ pc = "start"
    /\ error = ""
    /\ pr_items = <<>>
    /\ master_items = <<>>
    /\ sketches_reports = <<>>
    /\ master_sketches_reports = <<>>
    /\ summary_report_data = <<>>
    /\ detailed_report_data = <<>>
    /\ board_count = 0
    /\ row_number = 0
    /\ column_number = 0
    /\ board_index = 0
    /\ sketch_index = 0
    /\ minmax = Seeds
    /\ log = <<>>
    /\ report_markdown = <<>>
    /\ event = ""
    /\ triggers = events
    /\ pr_folder = pr_files
    /\ master_folder = master_files
    /\ report_filenames = <<>>
    /\ prs = pulls
    /\ pr_index = 1
    /\ comments = threads
    /\ destination_file = <<>>
    /\ http = <<>>
    /\ response = <<>>
    /\ last_urlopen = NotOpened
    /\ urls_logged = <<>>
    /\ page_number = FirstPage
    /\ page_count = FirstPage
    /\ api_data = NoApiData
    /\ run_index = 1
    /\ quota = requests
    /\ network = exceptions
    /\ page_size = items

\* Line 672: the items asked for per page.
per_page == 100

\* The same with a quota of 5000 requests, a network that raises nothing
\* and pages of per_page items.
StartRun(events, pr_files, master_files, pulls, threads) ==
    StartOnline(events, pr_files, master_files, pulls, threads, 5000, {}, per_page)

\* A folder with one report file of the given board entries; the empty
\* folder for none.
FolderOf(items) ==
    IF items = <<>> THEN <<>> ELSE << ReportFile("report.json", items) >>

\* A workflow_run event over a PR folder and a master folder that hold the
\* given board entries.
Start(pr, master) ==
    StartRun(<< "workflow_run" >>, FolderOf(pr), FolderOf(master), <<>>,
             NoComments)

(***************************************************************************)
(* Spec: consolidation, fold and table structure.  Sketches A, B and C     *)
(* with fixed sizes, at most MaxSketches in all, in up to MaxFragments      *)
(* board entries of two boards and two targets, plus the two-shard example *)
(* of the specification, against two baselines.                            *)
(***************************************************************************)
MaxFragments == 2
MaxSketches  == 2

\* Board "uno" is read with either target, board "due" with one.
Heads ==
    { [board |-> "uno", target |-> "esp32"],
      [board |-> "uno", target |-> "esp32s3"],
      [board |-> "due", target |-> "esp32s3"] }

\* Against the baseline 4000 / 1000: A is +50 / -10, B is -3000 / +20,
\* C is 0 / 0.
SketchA == Sketch("A", Sizes("merged", 4050, 31, 990, 9))
SketchB == Sketch("B", Sizes("merged", 1000, 8, 1020, 11))
SketchC == Sketch("C", Sizes("merged", 4000, 30, 1000, 10))

BaseSketch(name) == Sketch(name, Sizes("merged", 4000, 30, 1000, 10))

\* A baseline in which A occurs twice in one board and again in a second
\* board of the same target, each time with other sizes.
DuplicateMaster ==
    << Board("m1", "esp32",
             << Sketch("A", Sizes("merged", 4000, 30, 1000, 10)),
                Sketch("A", Sizes("merged", 3000, 22, 500, 5)) >>),
       Board("m2", "esp32",
             << Sketch("A", Sizes("merged", 2000, 15, 800, 8)) >>) >>

\* A baseline of both targets, without C for the second; the baseline with
\* duplicates.
MasterDocs ==
    { << Board("m1", "esp32",
               << BaseSketch("A"), BaseSketch("B"), BaseSketch("C") >>),
         Board("m2", "esp32s3", << BaseSketch("B"), BaseSketch("A") >>) >>,
      DuplicateMaster }

\* Two shards of board "uno" with the sketch lists [A, B] and [C].
ExampleShards ==
    << Board("uno", "esp32", << SketchA, SketchB >>),
       Board("uno", "esp32", << SketchC >>) >>

\* The two-shard example under each of the other events: a pull_request, a
\* schedule and a push event over the folder, and a scan of one open pull
\* request whose artifact holds the folder.
OtherEvents ==
    \E e \in {"pull_request", "schedule", "push", "workflow_dispatch"} :
        StartRun(<< e >>, FolderOf(ExampleShards), <<>>,
                 << PullRequest(1, "c0ffee", FALSE, TRUE) >>, NoComments)

Init ==
    \/ \E pr \in ItemsOf(Heads, {SketchA, SketchB, SketchC},
                         MaxFragments, MaxSketches) \cup {ExampleShards},
          master \in MasterDocs :
           Start(pr, master)
    \/ OtherEvents

Spec == Init /\ [][Next]_vars

(***************************************************************************)
(* SpecSizes: one sketch of one board against a baseline that holds it,    *)
(* in the shape of the sizes array that generate_report reads, over byte   *)
(* counts around the formatting thresholds and baselines of zero bytes.    *)
(* SpecShapes: the same over both shapes of the sizes array.               *)
(***************************************************************************)
\* Of the baseline 2000, 20 is 1 percent; of 4096, 41 is the first byte
\* count above 1 percent.
ByteDeltas ==
    { -3584, -2560, -2049, -2048, -2047, -41, -20, -1, 0, 1, 20, 21, 40, 41,
      100, 2047, 2048, 2049, 2560, 3584 }

SizeCases(shapes, deltas) ==
    { [shape |-> sh, flash |-> bf + d, flash_percentage |-> fp, ram |-> r,
       master_flash |-> bf, master_ram |-> mr] :
        sh \in shapes, bf \in {0, 2000, 4096}, d \in deltas,
        fp \in {10, 50}, r \in {1000, 3048}, mr \in {0, 1000} }

StartSizes(c) ==
    /\ c.flash >= 0
    /\ Start(<< Board("uno", "esp32",
                      << Sketch("A", Sizes(c.shape, c.flash,
                                           c.flash_percentage, c.ram, 10)) >>) >>,
             << Board("m1", "esp32",
                      << Sketch("A", Sizes(c.shape, c.master_flash, 10,
                                           c.master_ram, 10)) >>) >>)

InitSizes ==
    \/ \E c \in SizeCases({"merged"}, ByteDeltas) : StartSizes(c)
    \/ OtherEvents

SpecSizes == InitSizes /\ [][Next]_vars

InitShapes ==
    \/ \E c \in SizeCases({"merged", "split"}, {-100, 0, 100}) : StartSizes(c)
    \/ OtherEvents

SpecShapes == InitShapes /\ [][Next]_vars

(***************************************************************************)
(* SpecRows: the rows of the detail table, over sketch names with the      *)
(* "libraries/" segment in leading and other positions and names equal to  *)
(* the heading labels, with and without a baseline that holds "A".         *)
(***************************************************************************)
MaxRowFragments == 2
MaxRowSketches  == 2

RowNames == {"A", "libraries/A", "x/libraries/A", "Example", "Target"}

\* One sketch of each name, and a second sketch "A" of other sizes.
RowSketches ==
    {Sketch(n, Sizes("merged", 4050, 31, 990, 9)) : n \in RowNames}
        \cup {Sketch("A", Sizes("merged", 3900, 29, 1100, 11))}

InitRows ==
    \/ \E pr \in ItemsOf({h \in Heads : h.target = "esp32s3"}, RowSketches,
                         MaxRowFragments, MaxRowSketches),
          master \in { <<>>, << Board("m1", "esp32s3", << BaseSketch("A") >>) >> } :
           Start(pr, master)
    \/ OtherEvents

SpecRows == InitRows /\ [][Next]_vars

(***************************************************************************)
(* SpecScan: a pull_request or workflow_run event that posts the report of *)
(* the two-shard example on pull request 1, or no such event, followed by  *)
(* one scan of the open pull requests.  The pull requests are locked or    *)
(* not, with or without an artifact, the artifact folder holds the example *)
(* or nothing, with or without the hash of a commit, and a thread may      *)
(* start with a comment that begins with the key and the head hash, or     *)
(* with another comment.                                                   *)
(***************************************************************************)
HeadShas == {"c0ffee", "decade"}

\* A report file as arduino/compile-sketches writes it, with the hash of
\* the commit it was made for beside the board entries.
CommitReport(name, commit_hash, boards) ==
    File(name, TRUE, [commit_hash |-> commit_hash, boards |-> boards])

\* A comment body that begins with report_key_beginning and the hash.
KeyedComment(sha) == << report_key_beginning \o sha, "\n\nold report\n" >>

ScanThreads ==
    [PrNumbers -> { <<>>, << KeyedComment("c0ffee") >>, << << "LGTM" >> >> }]

\* The lists of open pull requests: number 1 alone or followed by number 2.
ScanPulls ==
    { << PullRequest(1, sha, locked, artifact) >> :
        sha \in HeadShas, locked \in BOOLEAN, artifact \in BOOLEAN }
    \cup
    { << PullRequest(1, "c0ffee", FALSE, artifact), PullRequest(2, sha, locked, TRUE) >> :
        sha \in HeadShas, locked \in BOOLEAN, artifact \in BOOLEAN }

InitScan ==
    \/ \E events \in { << "workflow_dispatch" >>,
                        << "pull_request", "workflow_dispatch" >>,
                        << "workflow_run", "workflow_dispatch" >> },
          files \in { <<>>, FolderOf(ExampleShards) }
                       \cup { << CommitReport("report.json", sha, ExampleShards) >> :
                                 sha \in HeadShas },
          pulls \in ScanPulls,
          threads \in ScanThreads :
           StartRun(events, files, files, pulls, threads)
    \/ OtherEvents

SpecScan == InitScan /\ [][Next]_vars

(***************************************************************************)
(* SpecLength: the length of the report.  One or two boards, each with the *)
(* sketches A and B, under a target name of 5, of 5 * 2^14 or of 5 * 2^15  *)
(* characters: with the second, the report of one board is within          *)
(* maximum_report_length and the report of two boards is not.              *)
(***************************************************************************)
\* The string s, n times doubled.
RECURSIVE Doubled(_, _)
Doubled(s, n) == IF n = 0 THEN s ELSE Doubled(s \o s, n - 1)

TargetNames == {Doubled("esp32", n) : n \in {0, 14, 15}}

InitLength ==
    \/ \E target \in TargetNames, boards \in {{"uno"}, {"uno", "due"}} :
           Start([b \in 1..Cardinality(boards) |->
                     Board(IF b = 1 THEN "uno" ELSE "due", target,
                           << SketchA, SketchB >>)],
                 << Board("m1", target, << BaseSketch("A"), BaseSketch("B") >>) >>)
    \/ OtherEvents

SpecLength == InitLength /\ [][Next]_vars

(***************************************************************************)
(* SpecFiles: folders of up to MaxFiles of the files below, under each     *)
(* event, and under two pull_request events one after the other.  Two      *)
(* names have the same key, one name starts with digits; one file holds an *)
(* empty boards array, one is not JSON, one has no "boards" key.           *)
(***************************************************************************)
MaxFiles == 3

Shard(board, sketch) == << Board(board, "esp32", << sketch >>) >>

FileChoices ==
    << ReportFile("report1.json", Shard("uno", SketchA)),
       ReportFile("report01.json", Shard("uno", SketchB)),
       ReportFile("report2.json", Shard("due", SketchC)),
       ReportFile("report10.json", Shard("uno", SketchC)),
       ReportFile("0-empty.json", <<>>),
       File("report20.json", FALSE, <<>>),
       File("summary.json", TRUE, [sketches |-> <<>>]) >>

\* The folders: the files of FileChoices at the positions of a set.
RECURSIVE Chosen(_, _)
Chosen(positions, from) ==
    IF from > Len(FileChoices) THEN <<>>
    ELSE (IF from \in positions THEN << FileChoices[from] >> ELSE <<>>)
            \o Chosen(positions, from + 1)

Folders ==
    {Chosen(positions, 1) :
        positions \in {P \in SUBSET (1..Len(FileChoices)) :
                         Cardinality(P) <= MaxFiles}}

MasterFolders ==
    { <<>>,
      << ReportFile("report.json",
                    << Board("m1", "esp32",
                             << BaseSketch("A"), BaseSketch("B") >>) >>) >>,
      << File("broken.json", FALSE, <<>>) >> }

InitFiles ==
    \E folder \in Folders :
        \/ \E events \in { << "pull_request" >>, << "schedule" >>, << "push" >>,
                            << "workflow_dispatch" >>,
                            << "pull_request", "pull_request" >> } :
               StartRun(events, folder, <<>>,
                        << PullRequest(1, "c0ffee", FALSE, TRUE) >>, NoComments)
        \/ \E master \in MasterFolders :
               StartRun(<< "workflow_run" >>, folder, master, <<>>, NoComments)

SpecFiles == InitFiles /\ [][Next]_vars

(***************************************************************************)
(* SpecHttp: the requests over a network that may raise any of the         *)
(* exceptions below at every urlopen, for as long as it likes, under a     *)
(* quota of no, one, two or many requests.  A pull_request event posts     *)
(* the report of the two-shard example; another event scans one pull       *)
(* request that is locked or has no artifact.  A call of raw_http_request  *)
(* in progress takes its next step.                                        *)
(***************************************************************************)
NetworkErrors ==
    { HTTPError(401, "Unauthorized"),
      HTTPError(403, "Forbidden"),
      HTTPError(404, "Not Found"),
      HTTPError(502, "Bad Gateway"),
      HTTPError(503, "Service Unavailable"),
      Raised("RemoteDisconnected", "Remote end closed connection without response"),
      Raised("ConnectionResetError", "[Errno 104] Connection reset by peer"),
      Raised("ConnectionRefusedError", "[Errno 111] Connection refused"),
      Raised("URLError", "<urlopen error [WinError 10061] No connection could be made because the target machine actively refused it>"),
      Raised("URLError", "<urlopen error [Errno -2] Name or service not known>") }

Quotas == {0, 1, 2, 5000}

InitHttp ==
    \/ \E events \in { << "pull_request" >>, << "workflow_dispatch" >> },
          locked \in BOOLEAN,
          requests \in Quotas :
           StartOnline(events, FolderOf(ExampleShards), <<>>,
                       << PullRequest(1, "c0ffee", locked, FALSE) >>, NoComments,
                       requests, NetworkErrors, per_page)
    \/ OtherEvents

SpecHttp ==
    InitHttp /\ [][Next]_vars /\ WF_vars(HandleRateLimiting) /\ WF_vars(UrlOpen)

(***************************************************************************)
(* SpecPages: a scan of up to MaxPulls open pull requests, which GitHub    *)
(* lists PageSize to the page.  The first is not locked, has no artifact   *)
(* and a thread of up to MaxComments comments, any of which may begin with *)
(* the key and the head hash; the others are locked or not and have one    *)
(* other comment.  The scan takes its next step as long as it has one.     *)
(***************************************************************************)
MaxPulls == 3
MaxComments == 3
PageSize == 1

PagedPulls ==
    UNION { { [i \in 1..n |-> PullRequest(i, "c0ffee", i # 1 /\ locked[i], FALSE)] :
                locked \in [1..n -> BOOLEAN] } : n \in 0..MaxPulls }

PagedThreads ==
    { [n \in 1..MaxPulls |-> IF n = 1 THEN thread ELSE << << "LGTM" >> >>] :
        thread \in SeqsUpTo({ KeyedComment("c0ffee"), << "LGTM" >> }, MaxComments) }

InitPages ==
    \/ \E pulls \in PagedPulls, threads \in PagedThreads :
           StartOnline(<< "workflow_dispatch" >>, <<>>, <<>>, pulls, threads,
                       5000, {}, PageSize)
    \/ OtherEvents

SpecPages ==
    /\ InitPages /\ [][Next]_vars
    /\ WF_vars(GetPullRequests) /\ WF_vars(ScanPullRequest)
    /\ WF_vars(ReportExists) /\ WF_vars(GetArtifactDownloadUrl)
    /\ WF_vars(GetArtifact) /\ WF_vars(HandleRateLimiting) /\ WF_vars(UrlOpen)

(***************************************************************************)
(* Properties                                                              *)
(***************************************************************************)
LogIndices == 1..Len(log)

\* generate_report has returned a report.
Returned == pc = "done" /\ report_markdown # <<>>

\* The sketch and the board a log entry is about.
EntryBoard(e)  == sketches_reports[e.board]
EntrySketch(e) == sketches_reports[e.board].sketches[e.sketch]

Matched(e)  == e.master_sketch # <<>>
Computed(e) == DOMAIN e.deltas = {DeltaKeys[i] : i \in 1..Len(DeltaKeys)}

\* The cells of the detail table an entry's sketch was written to.
FlashCell(e) == detailed_report_data[e.row + 1][e.column + 1]
RamCell(e)   == detailed_report_data[e.row + 1][e.column + 2]

SameValue(a, b) == ~Gt(a, b) /\ ~Lt(a, b)
IsMin(x, S) == (\E y \in S : SameValue(x, y)) /\ (\A z \in S : ~Lt(z, x))
IsMax(x, S) == (\E y \in S : SameValue(x, y)) /\ (\A z \in S : ~Gt(z, x))

Min0(v) == IF v < 0 THEN v ELSE 0
Max0(v) == IF v > 0 THEN v ELSE 0

\* The text the threshold rules give a byte delta v.
ClaimByteText(v) ==
    IF v = 0 THEN "0"
    ELSE IF v > 0 /\ v < 2048 THEN emoji_warning \o "+" \o ToString(v)
    ELSE IF v >= 2048
         THEN emoji_increased \o "+" \o ToString(PyRound(v, 1024)) \o "K"
    ELSE IF v <= -2048
         THEN emoji_decreased \o ToString(PyRound(v, 1024)) \o "K"
    ELSE emoji_decreased \o ToString(v)

\* C1: in the returned report of a single sketch, the detail cells and the
\* summary byte cells (min and max against the seed 0) of a byte delta v
\* hold the text of the threshold rules: '0' for 0, warning '+v' below
\* 2048, alert '+round(v/1024)K' from 2048 on, decrease 'round(v/1024)K' up
\* to -2048, decrease 'v' above -2048, and '-' without a baseline.
C1_ByteCellRendering ==
    Returned =>
        \A i \in LogIndices :
            LET e == log[i]
                f == e.deltas.flash_delta_bytes.n
                r == e.deltas.ram_delta_bytes.n
                row == summary_report_data[e.board + 2]
            IN  IF Matched(e)
                THEN /\ FlashCell(e) = StrCell(ClaimByteText(f))
                     /\ RamCell(e) = StrCell(ClaimByteText(r))
                     /\ row[2] = StrCell(ClaimByteText(Min0(f)))
                     /\ row[3] = StrCell(ClaimByteText(Max0(f)))
                     /\ row[6] = StrCell(ClaimByteText(Min0(r)))
                     /\ row[7] = StrCell(ClaimByteText(Max0(r)))
                ELSE FlashCell(e) = StrCell("-") /\ RamCell(e) = StrCell("-")

\* C2: in the returned report of a single sketch, the text of a byte delta
\* in the detail table equals the text of the same delta in the summary
\* table's byte column that holds it (the minimum for a negative delta, the
\* maximum for a positive one, both for 0).
C2_SameThresholding ==
    Returned =>
        \A i \in LogIndices :
            LET e == log[i]
                f == e.deltas.flash_delta_bytes.n
                r == e.deltas.ram_delta_bytes.n
                row == summary_report_data[e.board + 2]
            IN  Matched(e) =>
                    /\ f <= 0 => row[2] = FlashCell(e)
                    /\ f >= 0 => row[3] = FlashCell(e)
                    /\ r <= 0 => row[6] = RamCell(e)
                    /\ r >= 0 => row[7] = RamCell(e)

\* The deltas of one metric over the sketches of board b that were folded,
\* with the seed 0.
FoldedDeltas(b, key) ==
    {log[i].deltas[key] : i \in {j \in LogIndices : log[j].board = b /\ Computed(log[j])}}
        \cup {IntCell(0)}

\* The eight values are the minima and maxima of the four metrics.
IsFoldOf(b, fbmin, fbmax, fpmin, fpmax, rbmin, rbmax, rpmin, rpmax) ==
    /\ IsMin(fbmin, FoldedDeltas(b, "flash_delta_bytes"))
    /\ IsMax(fbmax, FoldedDeltas(b, "flash_delta_bytes"))
    /\ IsMin(fpmin, FoldedDeltas(b, "flash_delta_percentage"))
    /\ IsMax(fpmax, FoldedDeltas(b, "flash_delta_percentage"))
    /\ IsMin(rbmin, FoldedDeltas(b, "ram_delta_bytes"))
    /\ IsMax(rbmax, FoldedDeltas(b, "ram_delta_bytes"))
    /\ IsMin(rpmin, FoldedDeltas(b, "ram_delta_percentage"))
    /\ IsMax(rpmax, FoldedDeltas(b, "ram_delta_percentage"))

\* C3: while the boards are processed, the running minima and maxima of the
\* current board, and the summary row of every finished board, are
\* min(0, deltas) and max(0, deltas) over the baseline-matched sketches of
\* that board alone, for each of the four metrics; so min <= 0 <= max.
C3_SummaryFold ==
    /\ pc = "sketch" =>
          IsFoldOf(board_index,
                   minmax.flash_b_min, minmax.flash_b_max,
                   minmax.flash_p_min, minmax.flash_p_max,
                   minmax.ram_b_min, minmax.ram_b_max,
                   minmax.ram_p_min, minmax.ram_p_max)
    /\ pc \in {"board", "sketch"} =>
          \A b \in 1..(Len(summary_report_data) - 2) :
              LET row == summary_report_data[b + 2]
              IN  /\ IsFoldOf(b, row[2], row[3], row[4], row[5],
                              row[6], row[7], row[8], row[9])
                  /\ \A c \in {2, 4, 6, 8} :
                        ~Gt(row[c], IntCell(0)) /\ ~Lt(row[c + 1], IntCell(0))

\* C3 witness: the board of the two-shard example is finished with the
\* flash deltas +50, -3000 and 0 folded to min -3000 and max 50, and its
\* RAM maximum is +20.
C3_Witness ==
    /\ pc = "board"
    /\ Len(summary_report_data) = 3
    /\ {log[i].deltas.flash_delta_bytes.n : i \in {j \in LogIndices : Computed(log[j])}}
          = {50, -3000, 0}
    /\ summary_report_data[3][2] = IntCell(-3000)
    /\ summary_report_data[3][3] = IntCell(50)
    /\ summary_report_data[3][7] = IntCell(20)

\* C4: in the returned report, a sketch without a baseline sketch of the
\* same target and name has '-' in both of its detail cells, and the
\* processing of such a sketch does not raise.
C4_NoBaselineDash ==
    /\ Returned =>
          \A i \in LogIndices :
              ~Matched(log[i]) =>
                  FlashCell(log[i]) = StrCell("-") /\ RamCell(log[i]) = StrCell("-")
    /\ (pc = "raised" /\ log # <<>>) => Matched(log[Len(log)])

\* The positions of the entries that are the first of their board.
FirstOfBoard(items) ==
    {i \in 1..Len(items) : \A j \in 1..(i - 1) : items[j].board # items[i].board}

\* The k-th smallest element of a set of numbers.
Kth(S, k) == CHOOSE x \in S : Cardinality({y \in S : y < x}) = k - 1

\* The sketch lists of the entries of one board, in order, end to end.
RECURSIVE SketchesOf(_, _)
SketchesOf(items, board) ==
    IF items = <<>> THEN <<>>
    ELSE (IF Head(items).board = board THEN Head(items).sketches ELSE <<>>)
            \o SketchesOf(Tail(items), board)

\* One group per distinct board of items, in first-seen order, with the
\* first entry's target and all the board's sketches.
IsConsolidationOf(groups, items) ==
    /\ Len(groups) = Cardinality(FirstOfBoard(items))
    /\ \A k \in 1..Len(groups) :
          LET first == items[Kth(FirstOfBoard(items), k)]
          IN  /\ groups[k].board = first.board
              /\ groups[k].target = first.target
              /\ groups[k].sketches = SketchesOf(items, first.board)

\* C5: once get_sketches_reports has returned, its result holds exactly one
\* group per distinct board identifier of the entries read, in first-seen
\* order, with the target of the first entry of that board and the
\* concatenation of all its entries' sketch lists, duplicates kept.
C5_Consolidation ==
    pc # "load" =>
        /\ IsConsolidationOf(sketches_reports, pr_items)
        /\ IsConsolidationOf(master_sketches_reports, master_items)

\* C5 witness: the shards [A, B] and [C] of board "uno" were consolidated
\* into one group with the sketches [A, B, C].
C5_Witness ==
    /\ pc # "load"
    /\ pr_items = ExampleShards
    /\ Len(sketches_reports) = 1
    /\ sketches_reports[1].sketches = << SketchA, SketchB, SketchC >>

\* Both sketches of a matched entry hold the byte counts where lines
\* 506-516 read them.
Readable(e) ==
    LET keys == {"flash_bytes", "ram_bytes"}
    IN  /\ keys \subseteq DOMAIN EntrySketch(e).sizes[1]
        /\ keys \subseteq DOMAIN e.master_sketch[1].sizes[1]

\* The float p holds (current / previous) * 100 - 100.
IsPercentChange(p, current, previous) ==
    Num(p) * previous = (current - previous) * 100 * Den(p)

\* C6: for every processed sketch with a baseline sketch whose flash byte
\* count is not zero, flash_delta_bytes is current flash bytes minus
\* baseline flash bytes and flash_delta_percentage is
\* (current / baseline) * 100 - 100 of the byte counts, whatever the
\* flash_percentage fields of the input hold.
C6_FlashDelta ==
    \A i \in LogIndices :
        LET e        == log[i]
            current  == EntrySketch(e).sizes[1].flash_bytes
            previous == e.master_sketch[1].sizes[1].flash_bytes
        IN  (Matched(e) /\ previous # 0) =>
                /\ {"flash_delta_bytes", "flash_delta_percentage"} \subseteq DOMAIN e.deltas
                /\ e.deltas.flash_delta_bytes = IntCell(current - previous)
                /\ IsPercentChange(e.deltas.flash_delta_percentage, current, previous)

\* C6 witness: a sketch of 2100 flash bytes was processed against a baseline
\* of 2000: 100 bytes and 5.0 percent, with a flash_percentage field that
\* differs from the baseline's by 40.
C6_Witness ==
    \E i \in LogIndices :
        /\ Matched(log[i])
        /\ EntrySketch(log[i]).sizes[1].flash_bytes = 2100
        /\ EntrySketch(log[i]).sizes[1].flash_percentage = 50
        /\ log[i].master_sketch[1].sizes[1].flash_bytes = 2000
        /\ log[i].deltas.flash_delta_bytes = IntCell(100)
        /\ log[i].deltas.flash_delta_percentage = FltCell(5, 1)

\* The sizes array has the flash figures in its first element and the RAM
\* figures in its second.
SplitShape(sketch) ==
    /\ Len(sketch.sizes) = 2
    /\ "flash_bytes" \in DOMAIN sketch.sizes[1]
    /\ "ram_bytes" \in DOMAIN sketch.sizes[2]

\* C7 as stated: for a matched sketch whose sizes array, like the baseline
\* sketch's, holds the flash figures in its first and the RAM figures in its
\* second element (baseline byte counts not zero), nothing is raised and
\* the RAM deltas are current minus baseline and
\* (current / baseline) * 100 - 100.
C7_RamDeltaDocumentedShape ==
    \A i \in LogIndices :
        LET e        == log[i]
            current  == EntrySketch(e).sizes[2].ram_bytes
            previous == e.master_sketch[1].sizes[2].ram_bytes
        IN  ( /\ Matched(e)
              /\ SplitShape(EntrySketch(e))
              /\ SplitShape(e.master_sketch[1])
              /\ e.master_sketch[1].sizes[1].flash_bytes # 0
              /\ previous # 0 ) =>
                /\ error = ""
                /\ Computed(e)
                /\ e.deltas.ram_delta_bytes = IntCell(current - previous)
                /\ IsPercentChange(e.deltas.ram_delta_percentage, current, previous)

\* C7 amended: for a matched sketch whose sizes array, like the baseline
\* sketch's, holds the flash and the RAM figures together in its first
\* element, ram_delta_bytes is current minus baseline RAM bytes; when both
\* baseline byte counts are not zero nothing is raised and
\* ram_delta_percentage is (current / baseline) * 100 - 100.  With the RAM
\* figures in the second element the run ends in KeyError.
C7_RamDeltaMergedShape ==
    \A i \in LogIndices :
        LET e        == log[i]
            current  == EntrySketch(e).sizes[1].ram_bytes
            previous == e.master_sketch[1].sizes[1].ram_bytes
        IN  Matched(e) =>
                IF Readable(e)
                THEN /\ "ram_delta_bytes" \in DOMAIN e.deltas
                     /\ e.deltas.ram_delta_bytes = IntCell(current - previous)
                     /\ (e.master_sketch[1].sizes[1].flash_bytes # 0 /\ previous # 0) =>
                            /\ error = ""
                            /\ Computed(e)
                            /\ IsPercentChange(e.deltas.ram_delta_percentage,
                                               current, previous)
                ELSE pc = "raised" /\ error = "KeyError"

\* C7 witness: a sketch with both figures in the first element and 3048
\* RAM bytes was processed against a baseline of 1000: 2048 bytes and 204.8
\* percent.
C7_Witness ==
    \E i \in LogIndices :
        /\ Matched(log[i]) /\ Readable(log[i]) /\ Computed(log[i])
        /\ EntrySketch(log[i]).sizes[1].ram_bytes = 3048
        /\ log[i].master_sketch[1].sizes[1].ram_bytes = 1000
        /\ log[i].deltas.ram_delta_bytes = IntCell(2048)
        /\ log[i].deltas.ram_delta_percentage = FltCell(2048, 10)

\* The earliest baseline sketch, in baseline order, of a board with the
\* given target and with the given name; <<>> when there is none.
EarliestCandidate(master, target, name) ==
    LET groups == {g \in 1..Len(master) :
                      /\ master[g].target = target
                      /\ \E j \in 1..Len(master[g].sketches) :
                            master[g].sketches[j].name = name}
    IN  IF groups = {} THEN <<>>
        ELSE LET g == Kth(groups, 1)
                 j == Kth({h \in 1..Len(master[g].sketches) :
                              master[g].sketches[h].name = name}, 1)
             IN  << master[g].sketches[j] >>

\* C8: the baseline sketch every processed sketch is compared with is the
\* earliest one, in baseline order, of a baseline board with the current
\* board's target and with the sketch's name.
C8_FirstMatch ==
    \A i \in LogIndices :
        log[i].master_sketch =
            EarliestCandidate(master_sketches_reports,
                              EntryBoard(log[i]).target, EntrySketch(log[i]).name)

\* C9: a matched sketch whose baseline flash or RAM byte count is 0 does
\* not make generate_report raise.
C9_ZeroBaselineReturns ==
    \A i \in LogIndices :
        ( /\ Matched(log[i])
          /\ Readable(log[i])
          /\ \/ log[i].master_sketch[1].sizes[1].flash_bytes = 0
             \/ log[i].master_sketch[1].sizes[1].ram_bytes = 0 ) =>
            pc # "raised"

\* The sketch names of all boards in processing order.
AllNames ==
    Flatten([b \in 1..Len(sketches_reports) |->
                [j \in 1..Len(sketches_reports[b].sketches) |->
                    sketches_reports[b].sketches[j].name]])

\* The first occurrences of a sequence's elements, in order.
RECURSIVE FirstSeen(_)
FirstSeen(seq) ==
    IF seq = <<>> THEN <<>>
    ELSE LET front == FirstSeen(SubSeq(seq, 1, Len(seq) - 1))
             last  == seq[Len(seq)]
         IN  IF \E i \in 1..Len(front) : front[i] = last
             THEN front ELSE Append(front, last)

\* The name without a leading "libraries/".
WithoutLeadingLibraries(name) ==
    IF StartsWith(name, "libraries/")
    THEN SubSeq(name, Len("libraries/") + 1, Len(name))
    ELSE name

\* C10: the returned detail table has one data row per distinct sketch
\* name, in first-seen order, labelled with the name without a leading
\* "libraries/".
C10_DetailRows ==
    Returned =>
        LET names == FirstSeen(AllNames)
        IN  /\ Len(detailed_report_data) = 2 + Len(names)
            /\ \A r \in 1..Len(names) :
                  detailed_report_data[r + 2][1] =
                      StrCell(WithoutLeadingLibraries(names[r]))

(***************************************************************************)
(* Callers: the identity marker                                            *)
(***************************************************************************)
\* The comments of a thread that generate_report produced: their body
\* starts with the heading of line 620.
ReportsIn(thread) ==
    {j \in 1..Len(thread) :
        BodyStartsWith(thread[j], "### " \o report_key_beginning)}

\* C11: once a body returned by generate_report is a comment of a pull
\* request whose head commit is h, report_exists finds it for h; and a scan
\* that comes after it leaves the thread with one report.
C11_MarkerRoundTrip ==
    \A i \in 1..Len(prs) :
        /\ ReportsIn(comments[prs[i].number]) # {}
              => report_exists(comments[prs[i].number], prs[i].sha)
        /\ Cardinality(ReportsIn(comments[prs[i].number])) <= 1

(***************************************************************************)
(* Report assembly: the length of the body                                 *)
(***************************************************************************)
\* The number of characters of the pieces lo..hi of a text.
RECURSIVE PiecesLen(_, _, _)
PiecesLen(text, lo, hi) ==
    IF lo > hi THEN 0
    ELSE IF lo = hi THEN Len(text[lo])
    ELSE PiecesLen(text, lo, (lo + hi) \div 2)
            + PiecesLen(text, (lo + hi) \div 2 + 1, hi)

TextLen(text) == PiecesLen(text, 1, Len(text))

\* C12: a body that generate_report returns is at most
\* maximum_report_length characters long; a longer report is cut to that
\* length or ends in an error and is not returned.
C12_LengthBudget ==
    report_markdown # <<>> => TextLen(report_markdown) <= maximum_report_length

(***************************************************************************)
(* The report files: order of reading, empty and malformed folders         *)
(***************************************************************************)
\* C13: the reports posted by runs over the same files are the same text,
\* in whatever order each run's directory listing gives the files.
C13_OrderIndependent ==
    \A n \in PrNumbers :
        \A i, j \in 1..Len(comments[n]) : comments[n][i] = comments[n][j]

CharAt(s, i) == SubSeq(s, i, i)

DigitChar(c) == c \in {"0", "1", "2", "3", "4", "5", "6", "7", "8", "9"}

\* The positions of a name at which a run of digits or of other
\* characters starts.
RunStarts(name) ==
    {i \in 1..Len(name) :
        i = 1 \/ DigitChar(CharAt(name, i)) # DigitChar(CharAt(name, i - 1))}

\* The run of the name that starts at the k-th of the given positions and
\* ends before the next of them.
RunOf(name, starts, k) ==
    SubSeq(name, Kth(starts, k),
           IF k = Cardinality(starts) THEN Len(name)
           ELSE Kth(starts, k + 1) - 1)

RunsFrom(name, starts) ==
    (IF name # "" /\ DigitChar(CharAt(name, 1)) THEN << "" >> ELSE <<>>)
        \o [k \in 1..Cardinality(starts) |-> RunOf(name, starts, k)]

\* The runs of a name, alternating from a run without digits, which is
\* empty for a name that starts with a digit.
RunsOf(name) == RunsFrom(name, RunStarts(name))

\* x is before y as strings: at the first position where they differ x has
\* the character of the lower code point, or x ends there.
TextBefore(x, y) ==
    \E k \in 1..Len(y) :
        /\ k <= Len(x) + 1
        /\ SubSeq(x, 1, k - 1) = SubSeq(y, 1, k - 1)
        /\ \/ k = Len(x) + 1
           \/ \E a \in 1..Len(Ascii) :
                 /\ CharAt(x, k) = CharAt(Ascii, a)
                 /\ \E b \in (a + 1)..Len(Ascii) :
                       CharAt(y, k) = CharAt(Ascii, b)

\* A run of digits without its leading zeros.
Significant(run) ==
    SubSeq(run,
           1 + Cardinality({i \in 1..Len(run) :
                               \A j \in 1..i : CharAt(run, j) = "0"}),
           Len(run))

\* x is less than y as integers.
NumberBefore(x, y) ==
    \/ Len(Significant(x)) < Len(Significant(y))
    \/ /\ Len(Significant(x)) = Len(Significant(y))
       /\ TextBefore(Significant(x), Significant(y))

SameRun(x, y, k) ==
    IF k % 2 = 1 THEN x = y ELSE Significant(x) = Significant(y)

\* The runs x are ordered before the runs y: at the first position where
\* they differ, x's run is before y's, runs without digits as strings and
\* runs of digits as integers, or x has no run there.
RunsBefore(x, y) ==
    \E k \in 1..Len(y) :
        /\ k <= Len(x) + 1
        /\ \A i \in 1..(k - 1) : SameRun(x[i], y[i], i)
        /\ \/ k = Len(x) + 1
           \/ IF k % 2 = 1 THEN TextBefore(x[k], y[k])
              ELSE NumberBefore(x[k], y[k])

\* The name a is before the name b in the numeric-aware order.
NameBefore(a, b) == RunsBefore(RunsOf(a), RunsOf(b))

FolderNames == {pr_folder[i].name : i \in 1..Len(pr_folder)}

\* The folder of a local event has been read, or reading it has raised.
FolderRead == event \in LocalEvents /\ pc \notin {"start", "load"}

\* C14: the files of the folder are read each once, no file before one
\* that the numeric-aware order of names puts before it, and comparing the
\* names never raises TypeError.
C14_NumericOrder ==
    /\ error # "TypeError"
    /\ \A i, j \in 1..Len(report_filenames) :
          i < j => ~NameBefore(report_filenames[j], report_filenames[i])
    /\ FolderRead =>
          /\ Len(report_filenames) = Len(pr_folder)
          /\ {report_filenames[i] : i \in 1..Len(report_filenames)} = FolderNames

\* "report2.json" is read before "report10.json" from a folder that lists
\* them the other way round, and the report is posted.
C14_Witness ==
    /\ FolderRead
    /\ pc = "done"
    /\ comments[InputPrNumber] # <<>>
    /\ \E i, j \in 1..Len(pr_folder) :
          /\ i < j
          /\ pr_folder[i].name = "report10.json"
          /\ pr_folder[j].name = "report2.json"
    /\ \E i, j \in 1..Len(report_filenames) :
          /\ i < j
          /\ report_filenames[i] = "report2.json"
          /\ report_filenames[j] = "report10.json"

\* The file is not JSON or its object has no "boards" key.
Malformed(file) == ~file.json \/ "boards" \notin DOMAIN file.value

\* Every file of the folder is a report whose boards array is empty.
NoEntries(folder) ==
    \A i \in 1..Len(folder) :
        ~Malformed(folder[i]) /\ folder[i].value.boards = <<>>

\* No report is being made or has been made, posted or written.
NothingReported ==
    /\ pc \in {"start", "load", "pulls", "pulls_page", "scan", "comments",
               "comments_page", "runs", "runs_page", "run", "artifacts",
               "artifacts_page", "download", "done", "raised"}
    /\ report_markdown = <<>>
    /\ comments = NoComments
    /\ destination_file = <<>>

\* C16: over a folder that holds no file, or only files with an empty
\* boards array, reading the folder raises nothing and gives no board
\* entry, and under every event no report is made, posted or written.
C16_EmptyInput ==
    (pc # "start" /\ NoEntries(pr_folder)) =>
        /\ NothingReported
        /\ pr_items = <<>>
        /\ sketches_reports = <<>>
        /\ pc = "raised" =>
              event = "workflow_run" /\ ~NoEntries(master_folder)

\* A pull_request event has ended over a folder whose one file has an
\* empty boards array.
C16_Witness ==
    /\ event = "pull_request"
    /\ pc = "done"
    /\ error = ""
    /\ pr_folder # <<>>
    /\ NoEntries(pr_folder)
    /\ report_filenames = << "0-empty.json" >>
    /\ comments = NoComments

\* The folder read by the running process holds a malformed file.
MalformedInput ==
    \/ \E i \in 1..Len(pr_folder) : Malformed(pr_folder[i])
    \/ /\ event = "workflow_run"
       /\ \E i \in 1..Len(master_folder) : Malformed(master_folder[i])

\* C17: with a malformed file in the folder, the process ends in the
\* error of json.load or of the missing key once the folder is read, and
\* no report is made, posted or written.
C17_MalformedAborts ==
    MalformedInput =>
        /\ NothingReported
        /\ pc # "done"
        /\ pc = "raised" => error \in {"JSONDecodeError", "KeyError"}

\* Reading has raised at the file that is not JSON after the board entries
\* of two files were read.
C17_Witness ==
    /\ event = "pull_request"
    /\ pc = "raised"
    /\ error = "JSONDecodeError"
    /\ Len(pr_items) = 2
    /\ report_filenames[Len(report_filenames)] = "report20.json"
    /\ comments = NoComments

(***************************************************************************)
(* Summary table: percent cells                                            *)
(***************************************************************************)
\* The number of hundredths nearest to the absolute value of p, the even
\* one of two that are equally near.
Hundredths(p) ==
    CHOOSE h \in {(Abs(Num(p)) * 100) \div Den(p),
                  (Abs(Num(p)) * 100) \div Den(p) + 1} :
        \/ 2 * Abs(Abs(Num(p)) * 100 - h * Den(p)) < Den(p)
        \/ /\ 2 * Abs(Abs(Num(p)) * 100 - h * Den(p)) = Den(p)
           /\ h % 2 = 0

\* p with two decimal places.
TwoDecimals(p) ==
    (IF Num(p) < 0 THEN "-" ELSE "")
        \o ToString(Hundredths(p) \div 100) \o "."
        \o ToString((Hundredths(p) % 100) \div 10)
        \o ToString(Hundredths(p) % 10)

\* The text of a percent value p: the decrease marker below 0, the warning
\* marker and "+" above 0 up to 1, the alert marker and "+" above 1, no
\* marker for 0, then p with two decimal places.
ClaimPercentText(p) ==
    (IF Num(p) < 0 THEN emoji_decreased
     ELSE IF Num(p) = 0 THEN ""
     ELSE IF Num(p) <= Den(p) THEN emoji_warning \o "+"
     ELSE emoji_increased \o "+")
        \o TwoDecimals(p)

\* The smaller and the larger of p and the seed 0.
MinZero(p) == IF Num(p) < 0 THEN p ELSE IntCell(0)
MaxZero(p) == IF Num(p) > 0 THEN p ELSE IntCell(0)

\* C15: in the returned report of a single sketch, the summary cells of
\* columns 3, 4, 7 and 8 (minimum and maximum of the flash and of the RAM
\* percentage against the seed 0) hold the text of the percent rules, for
\* a sketch without a baseline the text of 0.
C15_PercentCellRendering ==
    Returned =>
        \A i \in LogIndices :
            LET e   == log[i]
                f   == IF Matched(e) THEN e.deltas.flash_delta_percentage
                       ELSE IntCell(0)
                r   == IF Matched(e) THEN e.deltas.ram_delta_percentage
                       ELSE IntCell(0)
                row == summary_report_data[e.board + 2]
            IN  Len(log) = 1 =>
                    /\ row[4] = StrCell(ClaimPercentText(MinZero(f)))
                    /\ row[5] = StrCell(ClaimPercentText(MaxZero(f)))
                    /\ row[8] = StrCell(ClaimPercentText(MinZero(r)))
                    /\ row[9] = StrCell(ClaimPercentText(MaxZero(r)))

\* A report is returned whose flash percentage was exactly 1 (2020 bytes
\* against 2000): the maximum cell holds the warning marker.
C15_Witness ==
    /\ Returned
    /\ Len(log) = 1
    /\ Matched(log[1])
    /\ log[1].deltas.flash_delta_percentage = FltCell(1, 1)
    /\ summary_report_data[3][4] = StrCell("0.00")
    /\ summary_report_data[3][5] = StrCell(":warning:+1.00")

(***************************************************************************)
(* Detail table: duplicate names, shape and frame, heading rows            *)
(***************************************************************************)
\* The log entries of the sketches of board b that have the name.
Occurrences(b, name) ==
    {i \in LogIndices : log[i].board = b /\ EntrySketch(log[i]).name = name}

\* The baseline holds a sketch of the name for the target.
InBaseline(target, name) ==
    \E m \in 1..Len(master_sketches_reports) :
        /\ master_sketches_reports[m].target = target
        /\ \E j \in 1..Len(master_sketches_reports[m].sketches) :
              master_sketches_reports[m].sketches[j].name = name

\* The text of the detail cell of an entry's delta, "-" without baseline.
EntryText(e, key) ==
    IF Matched(e) THEN StrCell(DetailText(e.deltas[key])) ELSE StrCell("-")

\* C18: in the returned report, the occurrences of a name that one board
\* holds twice or more are each looked up in the baseline and have their
\* own deltas, they all have the same data row of the detail table, and
\* that row's two cells of the board hold the deltas of the last of them.
C18_DuplicateNames ==
    Returned =>
        \A i, j \in LogIndices :
            ( /\ i < j
              /\ log[i].board = log[j].board
              /\ EntrySketch(log[i]).name = EntrySketch(log[j]).name
              /\ \A h \in Occurrences(log[j].board, EntrySketch(log[j]).name) :
                    h <= j ) =>
                /\ \A h \in {i, j} :
                      /\ Matched(log[h]) <=>
                            InBaseline(sketches_reports[log[h].board].target,
                                       EntrySketch(log[h]).name)
                      /\ Matched(log[h]) => Computed(log[h])
                /\ log[i].row = log[j].row
                /\ log[j].row >= 2
                /\ FlashCell(log[j]) = EntryText(log[j], "flash_delta_bytes")
                /\ RamCell(log[j]) = EntryText(log[j], "ram_delta_bytes")

\* Once the heading rows are set up, the second heading row and every data
\* row have one cell and two more per board.
C19_Shape ==
    \A r \in 2..Len(detailed_report_data) :
        Len(detailed_report_data[r]) = 1 + 2 * board_count

\* A step that processes a sketch of board k changes no cell of the table
\* but cells 2k-1 and 2k of the data row of the sketch's label.
C19_Frame ==
    (pc = "sketch" /\ Len(log') = Len(log) + 1) =>
        \A r \in 1..Len(detailed_report_data) :
            \A c \in 1..Len(detailed_report_data[r]) :
                detailed_report_data'[r][c] # detailed_report_data[r][c] =>
                    /\ r >= 3
                    /\ detailed_report_data[r][1] =
                          StrCell(DisplayName(
                              sketches_reports[board_index].sketches[sketch_index].name))
                    /\ c - 1 \in {2 * board_index - 1, 2 * board_index}

\* In the returned report, a data row holds "-" in the two cells of every
\* board that has no sketch of the row's label.
C19_Dash ==
    Returned =>
        \A r \in 3..Len(detailed_report_data) :
            \A k \in 1..Len(sketches_reports) :
                (\A j \in 1..Len(sketches_reports[k].sketches) :
                    StrCell(DisplayName(sketches_reports[k].sketches[j].name))
                        # detailed_report_data[r][1]) =>
                    /\ detailed_report_data[r][2 * k] = StrCell("-")
                    /\ detailed_report_data[r][2 * k + 1] = StrCell("-")

\* Every sketch of every board has a data row of its label.
C19_RowOfEverySketch ==
    Returned =>
        \A k \in 1..Len(sketches_reports) :
            \A j \in 1..Len(sketches_reports[k].sketches) :
                \E r \in 3..Len(detailed_report_data) :
                    detailed_report_data[r][1] =
                        StrCell(DisplayName(sketches_reports[k].sketches[j].name))

\* C19: with N boards the second heading row and every data row of the
\* detail table have 1 + 2N cells at all times; processing a sketch of the
\* k-th board changes cells 2k-1 and 2k of the sketch's data row and no
\* other cell; every sketch has a data row, which holds "-" in the cells of
\* a board without that sketch.
C19_ShapeAndFrame ==
    /\ [](C19_Shape /\ C19_Dash /\ C19_RowOfEverySketch)
    /\ [][C19_Frame]_vars

\* C20: in the returned report the first heading row of the detail table
\* is "Target" and the upper-cased target of each board, the second is
\* "Example" and "FLASH", "RAM" for each board.
C20_HeaderRows ==
    Returned =>
        /\ detailed_report_data[1] =
              << StrCell("Target") >>
                 \o [b \in 1..Len(sketches_reports) |->
                        StrCell(Upper(sketches_reports[b].target))]
        /\ detailed_report_data[2] =
              << StrCell("Example") >>
                 \o [c \in 1..(2 * Len(sketches_reports)) |->
                        StrCell(IF c % 2 = 1 THEN "FLASH" ELSE "RAM")]

(***************************************************************************)
(* The API client: retries of urlopen                                      *)
(***************************************************************************)
\* The exceptions after which another attempt is made, by class and
\* status code.
Retryable(exception) ==
    \/ exception.class \in {"RemoteDisconnected", "ConnectionResetError",
                             "ConnectionRefusedError"}
    \/ exception.class = "HTTPError" /\ exception.code \in {403, 502, 503}

\* This step is a call of urlopen.
Opens == http # <<>> /\ last_urlopen' # last_urlopen

\* The call of raw_http_request that opens the URL in this step ends with
\* the step.
Returns == Len(http') < Len(http)

\* The exception leaves every call in progress and the process.
Aborts(class) == pc' = "raised" /\ error' = class /\ http' = <<>>

\* The innermost call is the same after the step, before its next attempt.
TriesAgain ==
    /\ Len(http') = Len(http)
    /\ http'[Len(http)].url = http[Len(http)].url
    /\ http'[Len(http)].at = "while"
    /\ pc' = pc

C21_Attempts == last_urlopen.attempt <= 1 + maximum_urlopen_retries

C21_Step ==
    Opens =>
        IF last_urlopen'.raised = <<>>
        THEN /\ Returns
             /\ Len(http) = 1 => response' # <<>> /\ pc' = pc
        ELSE IF ~Retryable(last_urlopen'.raised[1])
        THEN Aborts(last_urlopen'.raised[1].class)
        ELSE IF last_urlopen'.attempt < 1 + maximum_urlopen_retries
        THEN TriesAgain
        ELSE Aborts("TimeoutError")

C22_Checked ==
    /\ last_urlopen.url = RateLimitUrl
    /\ last_urlopen.raised = <<>>
    /\ quota # 0

\* The process has exited with status 0 (line 774, the one call of
\* sys.exit): no call is in progress, no exception was raised.
Exited == pc = "exited" /\ http = <<>> /\ error = ""

C22_Step ==
    /\ Opens /\ RateLimited(last_urlopen'.url) => C22_Checked
    /\ Opens /\ last_urlopen'.url = RateLimitUrl /\ last_urlopen'.raised = <<>>
             /\ quota = 0
          => Exited' /\ UNCHANGED << quota, comments, response >>
    /\ Opens /\ last_urlopen'.url = RateLimitUrl => http[Len(http)].at = "while"
    /\ Exited => Exited' \/ (pc' # "exited" /\ triggers' # triggers)

\* A call for the rate limit is the innermost one, made by
\* handle_rate_limiting for a rate limited URL, and has no call for the
\* rate limit around it.
C22_NoRecursion ==
    /\ Len(http) <= 2
    /\ \A i \in 1..Len(http) :
          IF i < Len(http) \/ Len(http) = 1
          THEN RateLimited(http[i].url)
          ELSE http[i].url = RateLimitUrl

\* C22: each call of urlopen for a URL of api.github.com other than the
\* rate limit comes right after a call for the rate limit that came back
\* with requests left; when none are left the process exits with status 0
\* at once, the request is not sent and no retry follows; the rate limit
\* itself is opened without such a check, so the check does not recurse.
C22_RateLimitGate ==
    /\ []C22_NoRecursion
    /\ [][C22_Step]_vars

\* The rate limit came back with no requests left before the second
\* request of a scan, and the process has exited.
C22_Witness ==
    /\ Exited
    /\ quota = 0
    /\ last_urlopen.url = RateLimitUrl
    /\ last_urlopen.raised = <<>>
    /\ Len(urls_logged) >= 4

(***************************************************************************)
(* The scan: the commit of the report                                      *)
(***************************************************************************)
\* The archive has come back for the pull request of the scan: it is not
\* locked, no report was found for it, an artifact was.  Its first report
\* file records the hash of a commit.
ArtifactRead ==
    /\ Back("download")
    /\ response[1].body.value # <<>>
    /\ "commit_hash" \in DOMAIN response[1].body.value[1].value

\* C23: in the scan, when the artifact of a pull request that is not
\* locked and has no report yields sketches reports, generate_report is
\* called for it if the hash the report records is the hash of the head
\* commit; if not, the pull request is skipped and the scan goes on with
\* the next one.
C23_CommitHashGuard ==
    [][ArtifactRead /\ sketches_reports' # <<>> =>
           IF response[1].body.value[1].value.commit_hash = pr_data.head.sha
           THEN pc' = "setup"
           ELSE pc' = "scan" /\ pr_index' = pr_index + 1 /\ error' = ""]_vars

(***************************************************************************)
(* The scan: the pages of the pull requests and of the comments            *)
(***************************************************************************)
\* The page count the response for a page of the items reports: 0 with an
\* empty page; the number of the last page before the last page; 1 with
\* the last page, whose Link header names no last page.
Reported(items, page) ==
    IF PageOf(items, page) = <<>> THEN 0
    ELSE IF page < PageCountOf(items) THEN PageCountOf(items)
    ELSE 1

\* The positions of the log at which a page of the loop is requested, for
\* the URL of the loop as a function of the page.
RequestsOf(Url(_)) ==
    {i \in 1..Len(urls_logged) :
        \E page \in 1..(1 + MaxPulls + MaxComments) : urls_logged[i] = Url(page)}

\* The k-th request of the loop is for page k.
Ascending(Url(_)) ==
    \A i \in RequestsOf(Url) :
        urls_logged[i] = Url(1 + Cardinality({j \in RequestsOf(Url) : j < i}))

\* The requests for the pages of the comments of pull request n.
CommentRequests(n) == RequestsOf(LAMBDA page : CommentsUrl(n, page))

\* This step requests the page.
Requests(url) == urls_logged' = Append(urls_logged, url)

\* A comment of the page starts with the key and the hash.
FoundOn(thread, page, sha) ==
    \E i \in 1..Len(PageOf(thread, page)) :
        BodyStartsWith(PageOf(thread, page)[i], report_key_beginning \o sha)

C24_Ascending ==
    /\ Ascending(PullsUrl)
    /\ \A n \in DOMAIN comments : Ascending(LAMBDA page : CommentsUrl(n, page))

C24_Step ==
    /\ \A page \in 1..MaxPulls :
          Requests(PullsUrl(page + 1)) => page + 1 <= Reported(prs, page)
    /\ pc = "pulls" /\ pc' = "done" =>
          /\ Cardinality(RequestsOf(PullsUrl)) >= 1
          /\ Cardinality(RequestsOf(PullsUrl)) + 1
                > Reported(prs, Cardinality(RequestsOf(PullsUrl)))
    /\ \A n \in DOMAIN comments : \A page \in 1..MaxComments :
          Requests(CommentsUrl(n, page + 1)) =>
              /\ page + 1 <= Reported(comments[n], page)
              /\ \A before \in 1..page :
                    ~FoundOn(comments[n], before, pr_data.head.sha)
    /\ pc = "comments_page" /\ pc' = "scan" =>
          LET fetched == Cardinality(CommentRequests(pr_data.number))
          IN  /\ FoundOn(comments[pr_data.number], fetched, pr_data.head.sha)
              /\ \A before \in 1..(fetched - 1) :
                    ~FoundOn(comments[pr_data.number], before, pr_data.head.sha)
    /\ pc = "comments" /\ pc' = "runs" =>
          LET fetched == Cardinality(CommentRequests(pr_data.number))
          IN  /\ fetched >= 1
              /\ fetched >= PageCountOf(comments[pr_data.number])
              /\ fetched + 1 > Reported(comments[pr_data.number], fetched)
              /\ ~report_exists(comments[pr_data.number], pr_data.head.sha)

\* C24: the pages of the pull requests and of the comments of a pull
\* request are requested in ascending order from 1, each once; page p + 1
\* is requested only if, and whenever, p + 1 is at most the page count the
\* response for page p reports, so that an empty response ends the loop;
\* report_exists returns True with the first page that holds a comment
\* that starts with the key and the head hash, and False after the last
\* page when no comment does; report_exists returns and the scan comes to
\* an end.
C24_Pagination ==
    /\ []C24_Ascending
    /\ [][C24_Step]_vars
    /\ [](pc \in {"comments", "comments_page"}
            => <>(pc \in {"scan", "runs", "raised", "exited"}))
    /\ [](pc \in {"pulls", "pulls_page", "scan", "comments", "comments_page",
                  "runs", "runs_page", "run", "artifacts", "artifacts_page",
                  "download"}
            => <>(pc \in {"done", "raised", "exited"}))

\* The scan is over after three pages of pull requests, and for the first
\* pull request three pages of comments were requested.
C24_Witness ==
    /\ pc = "done"
    /\ event = "workflow_dispatch"
    /\ Cardinality(RequestsOf(PullsUrl)) = 3
    /\ Cardinality(CommentRequests(1)) = 3

====
